---- MODULE Spec2Model ----
(***************************************************************************)
(* Model of the Canvas file index downloader (file_index_downloader.py)    *)
(* and of the index status check of the API server (api_server.py).        *)
(*                                                                         *)
(* Strings are sequences of one-character strings, so that concatenation,  *)
(* split and replace are computed as the code computes them.               *)
(***************************************************************************)
EXTENDS Integers, Sequences, FiniteSets, TLC

\* ------------------------------------------------------------------------
\* Bounds of the model
\* ------------------------------------------------------------------------
\* Largest number of requests one paginated fetch may issue in the model.
MaxRequests == 3
\* Largest number of files on one page of the file listing of a course.
MaxPageLen == 2

\* ------------------------------------------------------------------------
\* State
\* ------------------------------------------------------------------------
\* fetch_all_pages
VARIABLES
    f_pc,        \* "idle" (not called), "loop" (inside the while), "done" (returned)
    all_data,    \* the list accumulated and returned by fetch_all_pages
    current_url, \* the loop variable current_url; NoUrl stands for None
    f_params,    \* TRUE while the params argument is still passed with the request
    f_served     \* history: what the server answered to each request, in order

\* The persistent files under file_index/
VARIABLES
    mapping_file,      \* vector_stores_mapping.json
    inaccessible_file  \* inaccessible_files.json

\* check_index_status
VARIABLES
    s_pc,                    \* "idle", "start", "crawl", "reconcile", "done"
    s_env,                   \* which environment variables are set
    s_todo,                  \* courses of the listing not yet crawled
    s_page,                  \* the loop variable page
    course_files,            \* len(course_files) of the course being crawled (the
                             \* code only tests the list for emptiness)
    canvas_files_by_course,  \* the keys of canvas_files_by_course (only its
                             \* length is used)
    canvas_file_names,       \* the set canvas_file_names (R)
    s_served,                \* history: a summary of each page response of the
                             \* current course, in order
    s_result                 \* the value returned by the handler

\* main of file_index_downloader.py, run after run
VARIABLES
    m_pc,               \* where the run is: "idle", "courses", "course", "items",
                        \* "scan", "upload", "files", "save", "write", "report",
                        \* "done" (main returned or raised), "killed"
    run,                \* number of runs started so far
    faults,             \* number of failures (failed requests, kills) so far
    m_cfg,              \* environment and arguments of the current run
    local,              \* the local mirror: path -> size of the file in bytes
    report_file,        \* download_report.json
    stats,              \* the module level dict stats of the process
    todo_courses,       \* courses the for loop of main has not processed yet
    cur_course,         \* the course process_course is working on
    course_stats,       \* the dict course_stats of process_course
    todo,               \* what process_course still has to do for the course
    existing_mapping,   \* the dict existing_mapping of main
    m_course_files,     \* the dict course_files of main: folder -> files to upload
    vector_stores_info, \* the dict vector_stores_info of main
    up_course,          \* the folder whose files are being uploaded
    up_store,           \* the vector_store_id in use for up_course
    up_files,           \* the files of up_course not yet uploaded
    m_log               \* history of the current run: requests issued, files
                        \* written, files uploaded, stores created

\* The API server: the handler sync_files and its background task
VARIABLES
    is_running,         \* the attribute sync_files.is_running
    sync_scheduled,     \* background tasks run_file_sync added and not yet started
    sync_running,       \* calls of run_file_sync that have started and not ended
    sync_replies        \* history: the status of each answer of sync_files

\* The API server: the legacy agent, the session manager, /api/tools, /ws/chat
VARIABLES
    agent_initialized,   \* the module-level flag of line 182
    manager_initialized, \* session_manager.manager_initialized
    started,             \* startup_event has run
    ws_open,             \* a client is connected to /ws/chat
    api_replies          \* history: what /api/tools and /ws/chat have sent

FetchVars == <<f_pc, all_data, current_url, f_params, f_served>>
DiskVars == <<mapping_file, inaccessible_file>>
StatusVars == <<s_pc, s_env, s_todo, s_page, course_files, canvas_files_by_course,
                canvas_file_names, s_served, s_result>>

MainVars == <<m_pc, run, faults, m_cfg, local, report_file, stats, todo_courses, cur_course,
              course_stats, todo, existing_mapping, m_course_files, vector_stores_info,
              up_course, up_store, up_files, m_log>>

SyncVars == <<is_running, sync_scheduled, sync_running, sync_replies>>

AgentVars == <<agent_initialized, manager_initialized, started, ws_open, api_replies>>

vars == <<FetchVars, DiskVars, StatusVars, MainVars, SyncVars, AgentVars>>

\* What the steps of fetch_all_pages leave alone.
OutsideFetch == <<DiskVars, StatusVars, MainVars, SyncVars, AgentVars>>
\* What the steps of check_index_status leave alone, the files apart.
OutsideStatus == <<FetchVars, MainVars, SyncVars, AgentVars>>
\* What the steps of main leave alone, the files apart.
OutsideMain == <<FetchVars, StatusVars, AgentVars>>

\* ------------------------------------------------------------------------
\* Generic helpers
\* ------------------------------------------------------------------------
SeqsUpTo(S, n) == UNION {[1..k -> S] : k \in 0..n}

Range(s) == {s[i] : i \in 1..Len(s)}

RECURSIVE Flatten(_)
Flatten(ss) == IF ss = <<>> THEN <<>> ELSE Head(ss) \o Flatten(Tail(ss))

\* ------------------------------------------------------------------------
\* Paginated fetcher: fetch_all_pages
\* ------------------------------------------------------------------------
NoUrl == "None"
EmptyUrl == ""
Urls == {"u1", "u2"}

Elems == {"e1", "e2"}

\* A Link header is a comma separated list of links; each link has a target
\* and a rel attribute.
Link(url, rel) == [url |-> url, rel |-> rel]

LinkHeaders ==
    { <<>>,
      <<Link("u1", "prev")>>,
      <<Link("u1", "next")>>,
      <<Link("u2", "next")>>,
      <<Link(EmptyUrl, "next")>>,
      <<Link("u1", "prev"), Link("u2", "next")>>,
      <<Link("u2", "next"), Link("u1", "prev")>>,
      <<Link("u1", "next"), Link("u2", "next")>> }

\* The JSON bodies of a page: lists of elements, or a single object.
PageBodies ==
    { [isList |-> TRUE, items |-> <<>>],
      [isList |-> TRUE, items |-> <<"e1">>],
      [isList |-> TRUE, items |-> <<"e2", "e1">>],
      [isList |-> FALSE, items |-> <<"obj">>] }

\* What one GET can produce: status 200 with a JSON body, status 200 whose
\* body is not JSON (response.json() raises), a non-200 status, or an
\* exception raised by the request itself.
OkResponses ==
    { [kind |-> "ok", isList |-> b.isList, items |-> b.items, link |-> h] :
        b \in PageBodies, h \in LinkHeaders }
FailResponses ==
    [kind : {"status", "raise", "badjson"}, isList : {TRUE}, items : {<<>>}, link : {<<>>}]
Responses == OkResponses \cup FailResponses

TruthyAlways(u) == TRUE

\* Python truthiness of current_url: None and '' end the while loop.
Truthy(u) == u # NoUrl /\ u # EmptyUrl

HasNext(link) == \E i \in 1..Len(link) : link[i].rel = "next"

\* The targets of the links of a header that are marked rel="next".
NextTargets(link) == {link[i].url : i \in {j \in 1..Len(link) : link[j].rel = "next"}}

\* Lines 95-101: the target of the first link whose text has rel="next",
\* None when the header is empty or has no such link.
NextUrlFirstLink(link) ==
    IF link = <<>> THEN NoUrl ELSE link[1].url

NextUrl(link) ==
    IF HasNext(link)
    THEN link[CHOOSE i \in 1..Len(link) :
                 /\ link[i].rel = "next"
                 /\ \A j \in 1..(i-1) : link[j].rel # "next"].url
    ELSE NoUrl

\* Lines 89-92: a list is extended into all_data, anything else is appended.
AccumulateReset(acc, resp) == resp.items

AccumulatePrepend(acc, resp) ==
    IF resp.isList THEN resp.items \o acc ELSE <<resp.items[1]>> \o acc

Accumulate(acc, resp) ==
    IF resp.isList THEN acc \o resp.items ELSE Append(acc, resp.items[1])

\* History entry: the URL requested, and of the answer its kind, its elements
\* and the targets of its next links.
ServedEntry(url, resp) ==
    [url |-> url, kind |-> resp.kind, items |-> resp.items, nexts |-> NextTargets(resp.link)]

InitFetchIdle ==
    /\ f_pc = "idle"
    /\ all_data = <<>>
    /\ current_url = NoUrl
    /\ f_params = FALSE
    /\ f_served = <<>>

\* Lines 81-82: the state on entry of the while loop.
InitFetchCall ==
    /\ f_pc = "loop"
    /\ all_data = <<>>
    /\ current_url \in Urls
    /\ f_params \in BOOLEAN
    /\ f_served = <<>>

\* Lines 84-109: one iteration of the while loop, the loop test that follows
\* it included.
FetchIteration ==
    /\ f_pc = "loop"
    /\ Truthy(current_url)
    /\ Len(f_served) < MaxRequests
    /\ \E resp \in Responses :
        /\ f_served' = Append(f_served, ServedEntry(current_url, resp))
        /\ IF resp.kind = "ok"
           THEN /\ all_data' = Accumulate(all_data, resp)
                /\ current_url' = NextUrl(resp.link)
                /\ f_params' = FALSE
                /\ f_pc' = IF Truthy(NextUrl(resp.link)) THEN "loop" ELSE "done"
           ELSE /\ f_pc' = "done"
                /\ UNCHANGED <<all_data, current_url, f_params>>
    /\ UNCHANGED OutsideFetch

\* ------------------------------------------------------------------------
\* Strings
\* ------------------------------------------------------------------------
\* str.replace(old, new) for one-character old and new.
Replace(s, old, new) == [i \in 1..Len(s) |-> IF s[i] = old THEN new ELSE s[i]]

Contains(s, c) == \E i \in 1..Len(s) : s[i] = c

FirstIndex(s, c) == CHOOSE i \in 1..Len(s) : s[i] = c /\ \A j \in 1..(i-1) : s[j] # c

LastIndex(s, c) == CHOOSE i \in 1..Len(s) : s[i] = c /\ \A j \in (i+1)..Len(s) : s[j] # c

\* s.split(c, 1)[1] when c occurs in s.
AfterFirst(s, c) == SubSeq(s, FirstIndex(s, c) + 1, Len(s))

\* s.split(c)[-1]
AfterLast(s, c) == IF Contains(s, c) THEN SubSeq(s, LastIndex(s, c) + 1, Len(s)) ELSE s

\* f"{course}::{file}"
CompositeKey(course, file) == course \o <<":", ":">> \o file

\* ------------------------------------------------------------------------
\* Persistent files under file_index/
\* ------------------------------------------------------------------------
\* A file that does not exist.
Absent == [exists |-> FALSE]

\* vector_stores_mapping.json holding the JSON text of mapping m completely.
MappingJson(m) == [exists |-> TRUE, complete |-> TRUE, data |-> m]

\* inaccessible_files.json holding the list l.
InaccessibleJson(l) == [exists |-> TRUE, data |-> l]

\* ------------------------------------------------------------------------
\* Index status check: check_index_status
\* ------------------------------------------------------------------------
\* Largest number of courses in the course listing.
MaxCourses == 1
\* Largest page number the status check may request for one course.
MaxPages == 2

NoName == <<"?">>

\* Course objects of the remote listing; name = NoName stands for a course
\* object without a 'name' key.
CourseObjects ==
    { [id |-> <<"1">>, name |-> <<"a">>],
      [id |-> <<"2">>, name |-> <<"b", "_", "a">>],
      [id |-> <<"3">>, name |-> NoName] }

\* Line 667: course.get('name', f'Course {course_id}')
StatusCourseName(course) ==
    IF course.name = NoName THEN <<"C", " ">> \o course.id ELSE course.name

\* File objects of the remote listing; NoName stands for an absent key.
FileObjects ==
    { [display_name |-> <<"f">>, filename |-> <<"g">>],
      [display_name |-> NoName, filename |-> <<"g">>],
      [display_name |-> NoName, filename |-> NoName] }

\* Line 685: file.get('display_name', file.get('filename', ''))
StatusFileName(file) ==
    IF file.display_name # NoName THEN file.display_name
    ELSE IF file.filename # NoName THEN file.filename
    ELSE <<>>

\* Lines 684-688: the names of one page that are kept, in page order.
RECURSIVE PageNames(_)
PageNames(files) ==
    IF files = <<>> THEN <<>>
    ELSE IF StatusFileName(Head(files)) # <<>>
         THEN <<StatusFileName(Head(files))>> \o PageNames(Tail(files))
         ELSE PageNames(Tail(files))

PageKeys(course_name, files) ==
    {CompositeKey(course_name, n) : n \in Range(PageNames(files))}

StatusPageResponses ==
    [kind : {"ok"}, files : SeqsUpTo(FileObjects, MaxPageLen), next : BOOLEAN]
    \cup [kind : {"status", "raise"}, files : {<<>>}, next : {FALSE}]

PageSummary(resp) ==
    [kind |-> resp.kind, empty |-> resp.files = <<>>, next |-> resp.next]

CourseListings ==
    [kind : {"ok"}, courses : SeqsUpTo(CourseObjects, MaxCourses)]
    \cup [kind : {"status", "raise"}, courses : {<<>>}]

\* Lines 726-733: the course name taken from a key of the mapping.
ActualCourseNameRaw(mapping_course_name) == mapping_course_name

ActualCourseName(mapping_course_name) ==
    IF Contains(mapping_course_name, "_")
    THEN AfterFirst(mapping_course_name, "_")
    ELSE mapping_course_name

\* Lines 735-743: the keys contributed by one entry of the mapping.
EntryKeys(mapping_course_name, course_data) ==
    { CompositeKey(ActualCourseName(mapping_course_name),
                   AfterLast(Replace(course_data.files[i].path, "\\", "/"), "/")) :
        i \in {j \in 1..Len(course_data.files) : course_data.files[j].path # <<>>} }

\* Lines 717-743: the set indexed_file_names (I).
IndexedFileNames(mf) ==
    IF mf.exists
    THEN UNION {EntryKeys(k, mf.data[k]) : k \in DOMAIN mf.data}
    ELSE {}

\* Lines 746-755: the set inaccessible_files_set.
InaccessibleFilesSet(inf) ==
    IF inf.exists
    THEN { CompositeKey(inf.data[i].course, inf.data[i].file_name) :
             i \in {j \in 1..Len(inf.data) :
                      inf.data[j].course # <<>> /\ inf.data[j].file_name # <<>>} }
    ELSE {}

\* Lines 757-761
MissingFilesKeepInaccessible(canvas, indexed, inaccessible) == canvas \ indexed

MissingFiles(canvas, indexed, inaccessible) == (canvas \ indexed) \ inaccessible

\* Line 763
ExtraFilesSymmetric(canvas, indexed) == (indexed \ canvas) \cup (canvas \ indexed)

ExtraFiles(canvas, indexed) == indexed \ canvas

\* Lines 774-786
StatusTypeMissingFirst(total_indexed_files, missing_count) ==
    IF missing_count > 0 THEN "partial_index"
    ELSE IF total_indexed_files = 0 THEN "no_index"
    ELSE "up_to_date"

StatusType(total_indexed_files, missing_count) ==
    IF total_indexed_files = 0 THEN "no_index"
    ELSE IF missing_count > 0 THEN "partial_index"
    ELSE "up_to_date"

ErrorResult(msg) == [status |-> "error", error |-> msg]

\* Lines 800-817 (the fields that depend on the reconciliation; the sets
\* missing_files and extra_files are kept next to their counts).
SuccessResult(canvas, by_course, mf, inf) ==
    LET indexed == IndexedFileNames(mf)
        inaccessible == InaccessibleFilesSet(inf)
        missing == MissingFiles(canvas, indexed, inaccessible)
        extra == ExtraFiles(canvas, indexed)
    IN [status |-> "success",
        index_status |-> StatusType(Cardinality(indexed), Cardinality(missing)),
        canvas_courses |-> Cardinality(by_course),
        canvas_files_total |-> Cardinality(canvas),
        indexed_files_total |-> Cardinality(indexed),
        missing_files_count |-> Cardinality(missing),
        extra_files_count |-> Cardinality(extra),
        has_local_index |-> mf.exists,
        inaccessible_files_count |-> Cardinality(inaccessible),
        missing_files |-> missing,
        extra_files |-> extra]

NoResult == [status |-> "none"]

InitStatusIdle ==
    /\ s_pc = "idle"
    /\ s_env = [canvas |-> TRUE, openai |-> TRUE]
    /\ s_todo = <<>>
    /\ s_page = 1
    /\ course_files = 0
    /\ canvas_files_by_course = {}
    /\ canvas_file_names = {}
    /\ s_served = <<>>
    /\ s_result = NoResult

InitStatusCall ==
    /\ s_pc = "start"
    /\ s_env \in [canvas : BOOLEAN, openai : BOOLEAN]
    /\ s_todo = <<>>
    /\ s_page = 1
    /\ course_files = 0
    /\ canvas_files_by_course = {}
    /\ canvas_file_names = {}
    /\ s_served = <<>>
    /\ s_result = NoResult

\* Lines 621-662: the configuration checks and the request of the course
\* listing (a single request, whose Link header is not looked at).
StatusStart ==
    /\ s_pc = "start"
    /\ IF ~s_env.canvas
       THEN /\ s_result' = ErrorResult("Canvas configuration not found")
            /\ s_pc' = "done"
            /\ UNCHANGED s_todo
       ELSE IF ~s_env.openai
       THEN /\ s_result' = ErrorResult("OpenAI API key not found")
            /\ s_pc' = "done"
            /\ UNCHANGED s_todo
       ELSE \E listing \in CourseListings :
            CASE listing.kind = "status" ->
                    /\ s_result' = ErrorResult("Failed to fetch Canvas courses")
                    /\ s_pc' = "done"
                    /\ UNCHANGED s_todo
              [] listing.kind = "raise" ->
                    /\ s_result' = ErrorResult("exception")
                    /\ s_pc' = "done"
                    /\ UNCHANGED s_todo
              [] OTHER ->
                    /\ s_todo' = listing.courses
                    /\ s_pc' = IF listing.courses = <<>> THEN "reconcile" ELSE "crawl"
                    /\ UNCHANGED s_result
    /\ UNCHANGED <<s_env, s_page, course_files, canvas_files_by_course,
                   canvas_file_names, s_served, DiskVars>>
    /\ UNCHANGED OutsideStatus

\* Lines 699-700 and the step to the next course of the for loop.
StatusEndCourse(files_of_course) ==
    /\ canvas_files_by_course' =
          IF files_of_course > 0
          THEN canvas_files_by_course \cup {StatusCourseName(Head(s_todo))}
          ELSE canvas_files_by_course
    /\ s_todo' = Tail(s_todo)
    /\ s_page' = 1
    /\ course_files' = 0
    /\ s_pc' = IF Tail(s_todo) = <<>> THEN "reconcile" ELSE "crawl"

\* Lines 673-697: one iteration of the while True loop of the current course.
StatusPage ==
    /\ s_pc = "crawl"
    /\ s_page <= MaxPages
    /\ \E resp \in StatusPageResponses :
        /\ s_served' = IF s_page = 1 THEN <<PageSummary(resp)>>
                        ELSE Append(s_served, PageSummary(resp))
        /\ CASE resp.kind = "raise" ->
                  /\ s_result' = ErrorResult("exception")
                  /\ s_pc' = "done"
                  /\ UNCHANGED <<s_todo, s_page, course_files, canvas_files_by_course,
                                 canvas_file_names>>
             [] resp.kind = "status" \/ (resp.kind = "ok" /\ resp.files = <<>>) ->
                  /\ StatusEndCourse(course_files)
                  /\ UNCHANGED <<canvas_file_names, s_result>>
             [] OTHER ->
                  /\ canvas_file_names' =
                        canvas_file_names \cup PageKeys(StatusCourseName(Head(s_todo)), resp.files)
                  /\ IF resp.next
                     THEN /\ course_files' = course_files + Len(PageNames(resp.files))
                          /\ s_page' = s_page + 1
                          /\ UNCHANGED <<s_todo, canvas_files_by_course, s_pc>>
                     ELSE StatusEndCourse(course_files + Len(PageNames(resp.files)))
                  /\ UNCHANGED s_result
    /\ UNCHANGED <<s_env, DiskVars>>
    /\ UNCHANGED OutsideStatus

EnsureRootEmptied(loc) == <<>>

\* Line 713: file_index_path.mkdir(parents=True, exist_ok=True) creates
\* DOWNLOAD_ROOT when it is missing; what is below it stays as it is.
EnsureRoot(loc) == loc

\* Lines 704-824: the mkdir of DOWNLOAD_ROOT, reading the two files, the
\* reconciliation and the listing of the vector stores. An exception in
\* this part (a mapping file that is not valid JSON, a failing vector store
\* listing) gives the error result.
StatusReconcile ==
    /\ s_pc = "reconcile"
    /\ \E openai_ok \in BOOLEAN :
        s_result' =
            IF mapping_file.exists /\ ~mapping_file.complete
            THEN ErrorResult("Failed to check Vector Stores")
            ELSE IF ~openai_ok
            THEN ErrorResult("Failed to check Vector Stores")
            ELSE SuccessResult(canvas_file_names, canvas_files_by_course,
                               mapping_file, inaccessible_file)
    /\ s_pc' = "done"
    /\ local' = EnsureRoot(local)
    /\ UNCHANGED <<s_env, s_todo, s_page, course_files, canvas_files_by_course,
                   canvas_file_names, s_served, DiskVars>>
    /\ UNCHANGED <<m_pc, run, faults, m_cfg, report_file, stats, todo_courses, cur_course,
                   course_stats, todo, existing_mapping, m_course_files, vector_stores_info,
                   up_course, up_store, up_files, m_log>>
    /\ UNCHANGED <<FetchVars, SyncVars, AgentVars>>

NextStatus == StatusStart \/ StatusPage \/ StatusReconcile

\* The mapping files and inaccessible lists the status check is run against.
StoredPaths ==
    { <<"d", "/", "f">>, <<"d", "\\", "g">>, <<"d", "/", "h">>, <<>> }

StoredEntries ==
    [vector_store_id : {"vs1"},
     files : SeqsUpTo([path : StoredPaths, file_id : {"id1"}], 1)]

MappingKeys == { <<"a">>, <<"b", "_", "a">> }

StoredMappings ==
    UNION {[ks -> StoredEntries] : ks \in {k \in SUBSET MappingKeys : Cardinality(k) <= 1}}

InaccessibleRecords ==
    { [course |-> <<"a">>, file_name |-> <<"f">>, file_id |-> "id1", error |-> "403 Forbidden"],
      [course |-> <<>>, file_name |-> <<"f">>, file_id |-> "id1", error |-> "403 Forbidden"] }

InitDiskStatus ==
    /\ mapping_file \in {Absent} \cup {MappingJson(m) : m \in StoredMappings}
    /\ inaccessible_file \in {Absent} \cup {InaccessibleJson(l) : l \in SeqsUpTo(InaccessibleRecords, 1)}

\* ------------------------------------------------------------------------
\* The downloader: names, paths and the remote catalogue
\* ------------------------------------------------------------------------
\* Largest number of runs of main in one behaviour.
MaxRuns == 2
\* Largest number of failures (failed requests, failed uploads, kills) in one
\* behaviour.
MaxFaults == 1
\* Largest number of POST /api/sync-files requests in one behaviour.
MaxSyncRequests == 3

\* Line 62: MAX_FILE_SIZE = 512 * 1024 * 1024
MAX_FILE_SIZE == 536870912

\* Line 61: SUPPORTED_EXTENSIONS. An extension is written as one token.
SUPPORTED_EXTENSIONS ==
    {"pdf", "txt", "md", "doc", "docx", "ppt", "pptx", "xls", "xlsx", "json", "csv"}

\* Line 74: the longest name sanitize_filename returns.
MaxNameLen == 200

\* Line 68: illegal_chars
IllegalChars == {"<", ">", ":", "\"", "/", "\\", "|", "?", "*"}

RECURSIVE StripLeft(_)
StripLeft(s) ==
    IF s # <<>> /\ Head(s) \in {".", " "} THEN StripLeft(Tail(s)) ELSE s

RECURSIVE StripRight(_)
StripRight(s) ==
    IF s # <<>> /\ s[Len(s)] \in {".", " "} THEN StripRight(SubSeq(s, 1, Len(s) - 1)) ELSE s

\* Lines 65-76
sanitize_filename(name) ==
    LET replaced == [i \in 1..Len(name) |-> IF name[i] \in IllegalChars THEN "_" ELSE name[i]]
        stripped == StripRight(StripLeft(replaced))
        cut == IF Len(stripped) > MaxNameLen THEN SubSeq(stripped, 1, MaxNameLen) ELSE stripped
    IN IF cut = <<>> THEN <<"u", "n", "n", "a", "m", "e", "d">> ELSE cut

\* Path.suffix.lower() without its dot: the text after the last dot of the
\* name, "" when the name has no dot or only a leading one.
Suffix(name) ==
    IF Contains(name, ".") /\ LastIndex(name, ".") > 1 /\ LastIndex(name, ".") < Len(name)
    THEN SubSeq(name, LastIndex(name, ".") + 1, Len(name))
    ELSE <<>>

\* The files the remote knows, by id. url = FALSE: the file object carries no
\* download URL (a locked file).
RemoteFiles ==
    [ f1 |-> [id |-> "f1", display_name |-> <<"f", ".", "pdf">>, size |-> 1, url |-> TRUE],
      f2 |-> [id |-> "f2", display_name |-> <<"g", ".", "txt">>, size |-> 2, url |-> TRUE],
      f3 |-> [id |-> "f3", display_name |-> <<"h", ".", "pdf">>, size |-> MAX_FILE_SIZE,
              url |-> TRUE],
      f4 |-> [id |-> "f4", display_name |-> <<"l", ".", "pdf">>, size |-> 1, url |-> FALSE] ]

\* The pages the remote knows, by page_url: the body and the file ids that
\* the pattern /files/(\d+) finds in it.
RemotePages ==
    [ p1 |-> [body |-> <<"B">>, file_ids |-> <<"f1">>] ]

\* The courses of the remote, in listing order, with their modules (items
\* inline) and the files of their Files area.
RemoteCourses ==
    << [id |-> "1", name |-> <<"a">>, course_code |-> <<"k">>,
        modules |-> << [id |-> "m1", name |-> <<"m">>,
                        items |-> << [type |-> "Page", title |-> <<"p">>, page_url |-> "p1"],
                                     [type |-> "File", title |-> <<"f">>, content_id |-> "f1"] >>] >>,
        files |-> <<"f2", "f4">>],
       [id |-> "2", name |-> <<"b", ":", "c">>, course_code |-> <<>>,
        modules |-> <<>>,
        files |-> <<"f3">>] >>

\* Lines 371-375: the name of the course and of its folder.
CourseName(c) == sanitize_filename(c.name)

CourseFolder(c) ==
    IF c.course_code # <<>> THEN c.course_code \o <<"_">> \o CourseName(c) ELSE CourseName(c)

\* A local path below DOWNLOAD_ROOT is the sequence of its components.
ModulePath(c, module_name, file_name) == <<CourseFolder(c), <<"Modules">>, module_name, file_name>>
FilesPath(c, file_name) == <<CourseFolder(c), <<"Files">>, file_name>>

\* str(file_path.relative_to(DOWNLOAD_ROOT)) with the separator of the platform.
RECURSIVE RelativePath(_, _)
RelativePath(path, sep) ==
    IF Len(path) = 1 THEN path[1]
    ELSE path[1] \o <<sep>> \o RelativePath(Tail(path), sep)

\* ------------------------------------------------------------------------
\* The downloader: statistics and download_file
\* ------------------------------------------------------------------------
\* Lines 42-58
InitialStats ==
    [courses |-> 0, modules |-> 0, files_total |-> 0, files_downloaded |-> 0,
     files_skipped |-> 0, files_failed |-> 0, files_inaccessible |-> 0, total_size |-> 0,
     vector_stores_created |-> 0, vector_stores_reused |-> 0,
     files_uploaded_to_vector_store |-> 0, files_upload_skipped |-> 0,
     files_upload_failed |-> 0, inaccessible_files |-> <<>>, errors |-> <<>>]

\* Lines 380-386
InitialCourseStats ==
    [modules |-> 0, files_from_modules |-> 0, files_from_files |-> 0,
     files_downloaded |-> 0, files_failed |-> 0]

\* History of a run: the calls of download_file (with the size of the local
\* file before the call, Missing when there was none), the paths written,
\* the paths uploaded, the folders a store was created for, the number of
\* times the mapping file was written, the mapping file as the run's save
\* found it and the mapping the save writes, whether the run wrote its
\* report, where it was interrupted, the value of stats["files_downloaded"]
\* at its start, and whether the run before it was a full sync that ended
\* with its report. Two fields are kept from run to run: the stores that
\* vector_stores.create has created so far, and the runs that were interrupted.
Missing == -2
EmptyLog ==
    [calls |-> <<>>, written |-> {}, uploaded |-> {}, created |-> {}, saves |-> 0,
     before_save |-> Absent, merged |-> Absent, reported |-> FALSE, killed_at |-> "none",
     downloaded_at_start |-> 0, after_full |-> FALSE, probes |-> {},
     documents |-> {}, attached |-> {}, to_upload |-> <<>>, tried |-> <<>>,
     refused |-> {}, scanned |-> FALSE, stores |-> {}, interrupted |-> {}]

\* What the GET of a download can produce: the whole body (200), 403, another
\* status, an exception before anything is written, or an exception while
\* the chunks are written, which leaves a shorter file.
DownloadResponses == {"ok", "forbidden", "status", "raise", "cut"}

IsFault(resp) == resp # "ok"

FileExists(loc, path) == path \in DOMAIN loc

WriteFileAlone(loc, path, size) == [q \in {path} |-> size]

WriteFile(loc, path, size) ==
    [q \in DOMAIN loc \cup {path} |-> IF q = path THEN size ELSE loc[q]]

\* Line 125: the test that decides whether the file is fetched again.
UpToDateIfExists(loc, file_info, file_path) == FileExists(loc, file_path)

UpToDate(loc, file_info, file_path) ==
    FileExists(loc, file_path) /\ loc[file_path] = file_info.size

\* Lines 114-157: download_file, answered by resp when it issues its request.
\* The result holds the returned pair, the new mirror and statistics, and
\* whether a request was issued and a file written.
download_file(loc, st, file_info, file_path, course_name, resp) ==
    IF ~file_info.url
    THEN [success |-> FALSE, msg |-> "no url", local |-> loc, stats |-> st,
          requested |-> FALSE, wrote |-> FALSE]
    ELSE IF UpToDate(loc, file_info, file_path)
    THEN [success |-> TRUE, msg |-> "exists", local |-> loc,
          stats |-> [st EXCEPT !.files_skipped = @ + 1],
          requested |-> FALSE, wrote |-> FALSE]
    ELSE CASE resp = "ok" ->
                [success |-> TRUE, msg |-> "ok",
                 local |-> WriteFile(loc, file_path, file_info.size),
                 stats |-> [st EXCEPT !.files_downloaded = @ + 1,
                                      !.total_size = @ + file_info.size],
                 requested |-> TRUE, wrote |-> TRUE]
           [] resp = "cut" ->
                [success |-> FALSE, msg |-> "exception",
                 local |-> WriteFile(loc, file_path, 0), stats |-> st,
                 requested |-> TRUE, wrote |-> TRUE]
           [] resp = "forbidden" ->
                [success |-> FALSE, msg |-> "403 Forbidden", local |-> loc,
                 stats |-> [st EXCEPT !.files_inaccessible = @ + 1,
                                      !.inaccessible_files =
                                          Append(@, [course |-> course_name,
                                                     file_name |-> file_info.display_name,
                                                     file_id |-> file_info.id,
                                                     error |-> "403 Forbidden"])],
                 requested |-> TRUE, wrote |-> FALSE]
           [] resp = "status" ->
                [success |-> FALSE, msg |-> "HTTP status", local |-> loc, stats |-> st,
                 requested |-> TRUE, wrote |-> FALSE]
           [] OTHER ->
                [success |-> FALSE, msg |-> "exception", local |-> loc, stats |-> st,
                 requested |-> TRUE, wrote |-> FALSE]

\* ------------------------------------------------------------------------
\* The downloader: main and process_course
\* ------------------------------------------------------------------------
NoCourse == [id |-> "none"]
DirMark == -1

\* A directory is an entry of the mirror marked DirMark.
MakeDir(loc, path) == IF path \in DOMAIN loc THEN loc ELSE WriteFile(loc, path, DirMark)

\* The environment and the arguments of a run: CANVAS_URL and
\* CANVAS_ACCESS_TOKEN set, the vector store client usable, skip_download,
\* course_id, auto_confirm, and whether main is called by the API server
\* (run_file_sync) rather than from the command line.
RunConfigs ==
    { [canvas |-> TRUE, upload |-> TRUE, skip_download |-> FALSE, course_id |-> "None",
       auto_confirm |-> TRUE, server |-> TRUE],
      [canvas |-> TRUE, upload |-> TRUE, skip_download |-> FALSE, course_id |-> "None",
       auto_confirm |-> FALSE, server |-> FALSE],
      [canvas |-> TRUE, upload |-> TRUE, skip_download |-> TRUE, course_id |-> "None",
       auto_confirm |-> FALSE, server |-> FALSE],
      [canvas |-> TRUE, upload |-> TRUE, skip_download |-> FALSE, course_id |-> "2",
       auto_confirm |-> FALSE, server |-> FALSE],
      [canvas |-> TRUE, upload |-> FALSE, skip_download |-> FALSE, course_id |-> "None",
       auto_confirm |-> TRUE, server |-> FALSE],
      [canvas |-> FALSE, upload |-> TRUE, skip_download |-> FALSE, course_id |-> "None",
       auto_confirm |-> TRUE, server |-> FALSE] }

Running == m_pc \in {"courses", "course", "items", "scan", "upload", "files", "save",
                     "write", "report"}

\* Line 731: where main goes after the download part.
AfterDownload(cfg) == IF cfg.upload THEN "scan" ELSE "report"

Prefixes(seq) == {SubSeq(seq, 1, n) : n \in 0..Len(seq)}

\* Line 678
SelectCourse(courses, course_id) ==
    SelectSeq(courses, LAMBDA c : c.id = course_id)

\* up_store when no vector store is in use (None); store ids are records.
NoStore == [store |-> <<>>, created_in |-> 0]

\* The memory of the process, which a new process starts with.
ClearRun ==
    /\ todo_courses' = <<>>
    /\ cur_course' = NoCourse
    /\ course_stats' = InitialCourseStats
    /\ todo' = <<>>
    /\ existing_mapping' = <<>>
    /\ m_course_files' = <<>>
    /\ vector_stores_info' = <<>>
    /\ up_course' = <<>>
    /\ up_store' = NoStore
    /\ up_files' = {}

\* A full sync: download and upload of all courses.
FullSync(cfg) == cfg.canvas /\ cfg.upload /\ ~cfg.skip_download /\ cfg.course_id = "None"

\* The entries directly below DOWNLOAD_ROOT (line 650).
RootIsEmpty ==
    /\ DOMAIN local = {}
    /\ ~mapping_file.exists
    /\ ~inaccessible_file.exists
    /\ ~report_file.exists

AfterSetupWithoutCanvasCheck(cfg, root_is_empty) ==
    IF cfg.skip_download
    THEN (IF root_is_empty THEN "done" ELSE AfterDownload(cfg))
    ELSE "courses"

\* Lines 585-590 and 646-650: where main goes after its setup. It returns
\* when CANVAS_URL or CANVAS_ACCESS_TOKEN is not set, and when it is asked
\* to upload only and there is nothing below DOWNLOAD_ROOT.
AfterSetup(cfg, root_is_empty) ==
    IF ~cfg.canvas THEN "done"
    ELSE IF cfg.skip_download
         THEN (IF root_is_empty THEN "done" ELSE AfterDownload(cfg))
         ELSE "courses"

\* Lines 581-657: a call of main up to the start of the download part. The
\* statistics are those of the process: a call from the API server finds the
\* counts of the server's earlier syncs, a new process starts from zero.
RunMain(cfg, fresh) ==
    /\ m_cfg' = cfg @@ [sep |-> m_cfg.sep]
    /\ stats' = IF fresh THEN InitialStats ELSE stats
    /\ m_pc' = AfterSetup(cfg, RootIsEmpty)
    /\ run' = run + 1
    /\ m_log' = [EmptyLog EXCEPT
                    !.downloaded_at_start = stats'.files_downloaded,
                    !.after_full = m_pc = "done" /\ FullSync(m_cfg) /\ m_log.reported,
                    !.stores = m_log.stores,
                    !.interrupted = m_log.interrupted]
    /\ ClearRun
    /\ UNCHANGED <<faults, local, report_file, DiskVars>>
    /\ UNCHANGED OutsideMain

StartRun ==
    /\ m_pc \in {"idle", "done", "killed"}
    /\ run < MaxRuns
    /\ \E cfg \in RunConfigs, fresh \in BOOLEAN :
        /\ ~fresh => (m_pc = "done" /\ cfg.server /\ m_cfg.server)
        /\ RunMain(cfg, fresh)
    /\ UNCHANGED SyncVars

\* Lines 668-717: the course listing, the course_id filter and the question
\* to the user. A listing that fails on some page gives the courses of the
\* pages before it.
GetCourses ==
    /\ m_pc = "courses"
    /\ \E all_courses \in Prefixes(RemoteCourses), answer \in {"y", "n"} :
        /\ all_courses # RemoteCourses => faults < MaxFaults
        /\ faults' = IF all_courses # RemoteCourses THEN faults + 1 ELSE faults
        /\ LET courses == IF m_cfg.course_id # "None"
                          THEN SelectCourse(all_courses, m_cfg.course_id)
                          ELSE all_courses
               asked == m_cfg.course_id = "None" /\ ~m_cfg.auto_confirm
           IN /\ ~asked => answer = "y"
              /\ IF all_courses = <<>> \/ courses = <<>> \/ answer # "y"
                 THEN /\ m_pc' = "done"
                      /\ todo_courses' = <<>>
                 ELSE /\ m_pc' = "course"
                      /\ todo_courses' = courses
    /\ UNCHANGED <<run, m_cfg, local, report_file, stats, cur_course, course_stats, todo,
                   existing_mapping, m_course_files, vector_stores_info, up_course,
                   up_store, up_files, m_log, DiskVars>>
    /\ UNCHANGED OutsideMain
    /\ UNCHANGED SyncVars

\* Lines 393-402: the work one module gives: its items, each with the
\* sanitized name of the module.
ModuleTasks(module) ==
    [i \in 1..Len(module.items) |->
        [kind |-> "item", module |-> sanitize_filename(module.name), item |-> module.items[i]]]

\* Lines 370-402 and 530: the start of process_course: the course folder, the
\* modules (those of the pages fetched before a failing one) and after them
\* the Files area.
BeginCourse ==
    /\ m_pc = "course"
    /\ todo_courses # <<>>
    /\ \E modules \in Prefixes(Head(todo_courses).modules) :
        /\ modules # Head(todo_courses).modules => faults < MaxFaults
        /\ faults' = IF modules # Head(todo_courses).modules THEN faults + 1 ELSE faults
        /\ todo' = Flatten([i \in 1..Len(modules) |-> ModuleTasks(modules[i])])
                      \o <<[kind |-> "area"]>>
        /\ course_stats' = [InitialCourseStats EXCEPT !.modules = Len(modules)]
    /\ cur_course' = Head(todo_courses)
    /\ local' = MakeDir(local, <<CourseFolder(Head(todo_courses))>>)
    /\ m_pc' = "items"
    /\ UNCHANGED <<run, m_cfg, report_file, stats, todo_courses, existing_mapping,
                   m_course_files, vector_stores_info, up_course, up_store, up_files,
                   m_log, DiskVars>>
    /\ UNCHANGED OutsideMain
    /\ UNCHANGED SyncVars

\* Lines 405 and 537: the for loops over the items and over the files go on
\* to the next element whatever the outcome of the present one.
RemainingAbortOnFailure(rest, success) == IF success THEN rest ELSE <<>>

Remaining(rest, success) == rest

\* An entry of stats["errors"].
ErrorEntry(course_name, module_name, file, msg) ==
    [course |-> course_name, module |-> module_name, file |-> file, error |-> msg]

\* What a step adds to the error list, to the count of failed files of the
\* course and to the inaccessible files.
Counted ==
    [errs |-> Len(stats'.errors) - Len(stats.errors),
     failed |-> course_stats'.files_failed - course_stats.files_failed,
     denied |-> stats'.files_inaccessible - stats.files_inaccessible,
     records |-> Len(stats'.inaccessible_files) - Len(stats.inaccessible_files)]

\* The history entry of a call of download_file: the course, the way the
\* file was discovered (via), the call and its result, and what download_file
\* and its caller have counted for it.
CallEntry(via, file_info, file_path, r, counted) ==
    [course |-> cur_course.id, via |-> via,
     file |-> file_info.id, path |-> file_path, url |-> file_info.url, size |-> file_info.size,
     before |-> IF FileExists(local, file_path) THEN local[file_path] ELSE Missing,
     success |-> r.success, msg |-> r.msg, requested |-> r.requested, wrote |-> r.wrote,
     counted |-> counted]

LogCall(log, via, file_info, file_path, r, counted) ==
    [log EXCEPT !.calls = Append(@, CallEntry(via, file_info, file_path, r, counted)),
                !.written = IF r.wrote THEN @ \cup {file_path} ELSE @]

\* One failure more when the request was issued and did not succeed.
CountFault(r, resp) == IF r.requested /\ IsFault(resp) THEN faults + 1 ELSE faults

FaultAllowed(resp) == IsFault(resp) => faults < MaxFaults

\* Lines 410-437: an item of type File.
FileItem(task, info_ok, resp) ==
    LET course_name == CourseName(cur_course)
        file_info == RemoteFiles[task.item.content_id]
        file_name == sanitize_filename(file_info.display_name)
        file_path == ModulePath(cur_course, task.module, file_name)
        r == download_file(local, stats, file_info, file_path, course_name, resp)
    IN IF ~info_ok
       THEN /\ stats' = [stats EXCEPT !.errors =
                            Append(@, ErrorEntry(course_name, task.module,
                                                 <<"F", "i", "l", "e", " ", "I", "D">>,
                                                 "no file info"))]
            /\ faults' = faults + 1
            /\ todo' = Remaining(Tail(todo), FALSE)
            /\ UNCHANGED <<local, course_stats, m_log>>
       ELSE /\ local' = r.local
            /\ stats' = IF r.success THEN r.stats
                        ELSE [r.stats EXCEPT !.errors =
                                 Append(@, ErrorEntry(course_name, task.module, file_name, r.msg))]
            /\ course_stats' =
                  IF r.success
                  THEN [course_stats EXCEPT !.files_from_modules = @ + 1,
                                            !.files_downloaded = @ + 1]
                  ELSE [course_stats EXCEPT !.files_failed = @ + 1]
            /\ faults' = CountFault(r, resp)
            /\ m_log' = LogCall(m_log, "item", file_info, file_path, r,
                                Counted)
            /\ todo' = Remaining(Tail(todo), r.success)

\* The tasks for the file ids found in a page body or a description.
EmbeddedTasks(module_name, file_ids) ==
    [i \in 1..Len(file_ids) |->
        [kind |-> "embedded", module |-> module_name, file_id |-> file_ids[i]]]

\* Lines 440-470: an item of type Page: the body is written as an HTML file
\* whenever it is not empty, then the files it links to are fetched.
PageItem(task, page_ok) ==
    LET page == RemotePages[task.item.page_url]
        page_file_name == sanitize_filename(task.item.title \o <<".", "html">>)
        page_file_path == ModulePath(cur_course, task.module, page_file_name)
    IN IF ~page_ok
       THEN /\ faults' = faults + 1
            /\ todo' = Remaining(Tail(todo), FALSE)
            /\ UNCHANGED <<local, stats, course_stats, m_log>>
       ELSE /\ IF page.body # <<>>
               THEN /\ local' = WriteFile(local, page_file_path, Len(page.body))
                    /\ course_stats' = [course_stats EXCEPT !.files_from_modules = @ + 1,
                                                            !.files_downloaded = @ + 1]
                    /\ stats' = [stats EXCEPT !.files_downloaded = @ + 1]
                    /\ m_log' = [m_log EXCEPT !.written = @ \cup {page_file_path}]
               ELSE UNCHANGED <<local, course_stats, stats, m_log>>
            /\ todo' = EmbeddedTasks(task.module, page.file_ids) \o Tail(todo)
            /\ UNCHANGED faults

\* Lines 405-525: one item of a module. Items of other types than File, Page
\* and Assignment are ignored. The remote of this model has no Assignment
\* item: lines 472-525 treat one as a Page item, with the description in the
\* place of the body.
ProcessItem ==
    /\ m_pc = "items"
    /\ todo # <<>>
    /\ Head(todo).kind = "item"
    /\ LET task == Head(todo)
       IN CASE task.item.type = "File" ->
                  \E info_ok \in BOOLEAN, resp \in DownloadResponses :
                      /\ ~info_ok => (faults < MaxFaults /\ resp = "ok")
                      /\ FaultAllowed(resp)
                      /\ FileItem(task, info_ok, resp)
            [] task.item.type = "Page" ->
                  \E page_ok \in BOOLEAN :
                      /\ ~page_ok => faults < MaxFaults
                      /\ PageItem(task, page_ok)
            [] OTHER ->
                  /\ todo' = Tail(todo)
                  /\ UNCHANGED <<faults, local, stats, course_stats, m_log>>
    /\ UNCHANGED <<m_pc, run, m_cfg, report_file, todo_courses, cur_course, existing_mapping,
                   m_course_files, vector_stores_info, up_course, up_store, up_files,
                   DiskVars>>
    /\ UNCHANGED OutsideMain
    /\ UNCHANGED SyncVars

\* Lines 461-470 and 516-525: a file linked from a page body or from a
\* description. A failure is not recorded anywhere.
ProcessEmbedded ==
    /\ m_pc = "items"
    /\ todo # <<>>
    /\ Head(todo).kind = "embedded"
    /\ \E info_ok \in BOOLEAN, resp \in DownloadResponses :
        /\ ~info_ok => (faults < MaxFaults /\ resp = "ok")
        /\ FaultAllowed(resp)
        /\ LET task == Head(todo)
               file_info == RemoteFiles[task.file_id]
               file_name == sanitize_filename(file_info.display_name)
               file_path == ModulePath(cur_course, task.module, file_name)
               r == download_file(local, stats, file_info, file_path,
                                  CourseName(cur_course), resp)
           IN IF ~info_ok
              THEN /\ faults' = faults + 1
                   /\ todo' = Remaining(Tail(todo), FALSE)
                   /\ UNCHANGED <<local, stats, course_stats, m_log>>
              ELSE /\ local' = r.local
                   /\ todo' = Remaining(Tail(todo), r.success)
                   /\ stats' = r.stats
                   /\ course_stats' =
                         IF r.success
                         THEN [course_stats EXCEPT !.files_from_modules = @ + 1,
                                                   !.files_downloaded = @ + 1]
                         ELSE course_stats
                   /\ faults' = CountFault(r, resp)
                   /\ m_log' = LogCall(m_log, "embedded", file_info, file_path, r,
                                       Counted)
    /\ UNCHANGED <<m_pc, run, m_cfg, report_file, todo_courses, cur_course, existing_mapping,
                   m_course_files, vector_stores_info, up_course, up_store, up_files,
                   DiskVars>>
    /\ UNCHANGED OutsideMain
    /\ UNCHANGED SyncVars

\* Lines 555-560 and 719-724: the end of process_course and the step of the
\* for loop of main to the next course.
NextCourse ==
    /\ todo_courses' = Tail(todo_courses)
    /\ cur_course' = NoCourse
    /\ todo' = <<>>
    /\ m_pc' = IF Tail(todo_courses) # <<>> THEN "course" ELSE AfterDownload(m_cfg)

\* Lines 197-241 and 530-535: get_course_files. probe is the answer to the
\* first request: 403 makes process_course return at once, without adding
\* the course to the statistics; another failure gives no files; otherwise
\* the listing gives the files of the pages fetched before a failing one.
get_course_files_denied_as_empty(probe, files) ==
    [denied |-> FALSE, files |-> IF probe = "ok" THEN files ELSE <<>>]

get_course_files(probe, files) ==
    [denied |-> probe = "forbidden", files |-> IF probe = "ok" THEN files ELSE <<>>]

ProcessFilesArea ==
    /\ m_pc = "items"
    /\ todo # <<>>
    /\ Head(todo).kind = "area"
    /\ \E probe \in {"ok", "forbidden", "status"}, files \in Prefixes(cur_course.files) :
        /\ (probe # "ok" \/ files # cur_course.files) => faults < MaxFaults
        /\ probe # "ok" => files = <<>>
        /\ faults' = IF probe # "ok" \/ files # cur_course.files THEN faults + 1 ELSE faults
        /\ m_log' = [m_log EXCEPT !.probes = @ \cup {[course |-> cur_course.id,
                                                       probe |-> probe]}]
        /\ LET got == get_course_files(probe, files)
           IN  IF got.denied
               THEN /\ NextCourse
                    /\ course_stats' = InitialCourseStats
               ELSE /\ todo' = [i \in 1..Len(got.files) |->
                                   [kind |-> "area_file", file_id |-> got.files[i]]]
                    /\ UNCHANGED <<todo_courses, cur_course, m_pc, course_stats>>
    /\ UNCHANGED <<run, m_cfg, local, report_file, stats, existing_mapping, m_course_files,
                   vector_stores_info, up_course, up_store, up_files, DiskVars>>
    /\ UNCHANGED OutsideMain
    /\ UNCHANGED SyncVars

\* Lines 537-553: a file of the Files area.
ProcessAreaFile ==
    /\ m_pc = "items"
    /\ todo # <<>>
    /\ Head(todo).kind = "area_file"
    /\ \E resp \in DownloadResponses :
        /\ FaultAllowed(resp)
        /\ LET course_name == CourseName(cur_course)
               file_info == RemoteFiles[Head(todo).file_id]
               file_name == sanitize_filename(file_info.display_name)
               file_path == FilesPath(cur_course, file_name)
               r == download_file(local, stats, file_info, file_path, course_name, resp)
           IN /\ local' = r.local
              /\ stats' = IF r.success THEN r.stats
                          ELSE [r.stats EXCEPT !.errors =
                                   Append(@, [course |-> course_name, file |-> file_name,
                                              error |-> r.msg])]
              /\ course_stats' =
                    IF r.success
                    THEN [course_stats EXCEPT !.files_from_files = @ + 1,
                                              !.files_downloaded = @ + 1]
                    ELSE [course_stats EXCEPT !.files_failed = @ + 1]
              /\ faults' = CountFault(r, resp)
              /\ m_log' = LogCall(m_log, "area", file_info, file_path, r,
                                  Counted)
              /\ todo' = Remaining(Tail(todo), r.success)
    /\ UNCHANGED <<m_pc, run, m_cfg, report_file, todo_courses, cur_course, existing_mapping,
                   m_course_files, vector_stores_info, up_course, up_store, up_files,
                   DiskVars>>
    /\ UNCHANGED OutsideMain
    /\ UNCHANGED SyncVars

CourseDoneAnytime(rest) == TRUE

\* Lines 405-553: process_course reaches its return when its loops have
\* awaited every item of every module and every file of the Files area.
CourseDone(rest) == rest = <<>>

\* Lines 555-560: process_course returns after the last file of the course.
EndCourse ==
    /\ m_pc = "items"
    /\ CourseDone(todo)
    /\ stats' = [stats EXCEPT
                    !.courses = @ + 1,
                    !.modules = @ + course_stats.modules,
                    !.files_total = @ + course_stats.files_from_modules
                                      + course_stats.files_from_files,
                    !.files_failed = @ + course_stats.files_failed]
    /\ NextCourse
    /\ course_stats' = InitialCourseStats
    /\ UNCHANGED <<run, faults, m_cfg, local, report_file, existing_mapping, m_course_files,
                   vector_stores_info, up_course, up_store, up_files, m_log, DiskVars>>
    /\ UNCHANGED OutsideMain
    /\ UNCHANGED SyncVars

can_upload_any_size(loc, file_path) ==
    /\ Len(Suffix(file_path[Len(file_path)])) = 1
    /\ Suffix(file_path[Len(file_path)])[1] \in SUPPORTED_EXTENSIONS

\* ------------------------------------------------------------------------
\* The downloader: upload to the vector stores and the end of main
\* ------------------------------------------------------------------------
\* Lines 300-313: can_upload_to_vector_store, for a file of the mirror.
can_upload_to_vector_store(loc, file_path) ==
    /\ Len(Suffix(file_path[Len(file_path)])) = 1
    /\ Suffix(file_path[Len(file_path)])[1] \in SUPPORTED_EXTENSIONS
    /\ loc[file_path] <= MAX_FILE_SIZE

\* Lines 746-747: the course folders below DOWNLOAD_ROOT.
CourseFolders(loc) ==
    {q[1] : q \in {q2 \in DOMAIN loc : Len(q2) = 1 /\ loc[q2] = DirMark /\ Head(q2[1]) # "."}}

\* Line 761: the files below a course folder.
FilesBelow(loc, folder) ==
    {q \in DOMAIN loc : Len(q) > 1 /\ q[1] = folder /\ loc[q] # DirMark}

UploadedFilesForgotten(mapping, folder) == {}

\* Lines 752-758: the paths the mapping records for a folder, with forward
\* slashes.
UploadedFiles(mapping, folder) ==
    IF folder \in DOMAIN mapping
    THEN {Replace(mapping[folder].files[i].path, "\\", "/") :
             i \in 1..Len(mapping[folder].files)}
    ELSE {}

\* Line 764
NormalizedRelativePath(file_path, sep) == Replace(RelativePath(file_path, sep), "\\", "/")

\* Lines 761-769: the files of a folder that are to be uploaded.
FilesToUpload(loc, mapping, folder, sep) ==
    {q \in FilesBelow(loc, folder) :
        /\ can_upload_to_vector_store(loc, q)
        /\ NormalizedRelativePath(q, sep) \notin UploadedFiles(mapping, folder)}

FilesUploadSkipped(loc, mapping, folder, sep) ==
    {q \in FilesBelow(loc, folder) :
        /\ can_upload_to_vector_store(loc, q)
        /\ NormalizedRelativePath(q, sep) \in UploadedFiles(mapping, folder)}

\* Lines 744-772: the dict course_files.
CourseFiles(loc, mapping, sep) ==
    [folder \in {fo \in CourseFolders(loc) : FilesToUpload(loc, mapping, fo, sep) # {}} |->
        FilesToUpload(loc, mapping, folder, sep)]

\* Lines 736-781: the mapping file is read and the mirror is scanned. A
\* mapping file that is not complete JSON makes json.load raise, which ends
\* main.
ScanForUpload ==
    /\ m_pc = "scan"
    /\ IF mapping_file.exists /\ ~mapping_file.complete
       THEN /\ m_pc' = "done"
            /\ m_log' = [m_log EXCEPT !.scanned = TRUE]
            /\ UNCHANGED <<existing_mapping, m_course_files, stats>>
       ELSE LET mapping == IF mapping_file.exists THEN mapping_file.data ELSE <<>>
                found == CourseFiles(local, mapping, m_cfg.sep)
                skipped == UNION {FilesUploadSkipped(local, mapping, fo, m_cfg.sep) :
                                     fo \in CourseFolders(local)}
            IN /\ existing_mapping' = mapping
               /\ m_course_files' = found
               /\ stats' = [stats EXCEPT !.files_upload_skipped = @ + Cardinality(skipped)]
               /\ m_log' = [m_log EXCEPT !.to_upload = found, !.scanned = TRUE]
               /\ m_pc' = IF DOMAIN found # {} THEN "upload" ELSE "report"
    /\ vector_stores_info' = <<>>
    /\ UNCHANGED <<run, faults, m_cfg, local, report_file, todo_courses, cur_course,
                   course_stats, todo, up_course, up_store, up_files, DiskVars>>
    /\ UNCHANGED OutsideMain
    /\ UNCHANGED SyncVars

Without(f, k) == [x \in DOMAIN f \ {k} |-> f[x]]

With(f, k, v) == [x \in DOMAIN f \cup {k} |-> IF x = k THEN v ELSE f[x]]

\* The id the remote gives to a store created in this run for a folder.
NewStoreId(folder) == [store |-> folder, created_in |-> run]

NextUploadStepSaveEachCourse(files_left, courses_left) ==
    IF files_left # {} THEN "files" ELSE "save"

\* Lines 797-852: the two for loops of the upload part: the next file of the
\* course, then the next course of course_files, and the save of the mapping
\* after the last course.
NextUploadStep(files_left, courses_left) ==
    IF files_left # {} THEN "files"
    ELSE IF courses_left = {} THEN "save" ELSE "upload"

HasStoreNever(mapping, folder) == FALSE

\* Lines 800-801: is there a store to reuse?
HasStore(mapping, folder) ==
    folder \in DOMAIN mapping /\ "vector_store_id" \in DOMAIN mapping[folder]

\* Lines 797-822: the next course of course_files: its store is reused or
\* created; without a store the course is skipped.
UploadCourse ==
    /\ m_pc = "upload"
    /\ DOMAIN m_course_files # {}
    /\ \E folder \in DOMAIN m_course_files, created \in BOOLEAN :
        LET reuse == HasStore(existing_mapping, folder)
            rest == Without(m_course_files, folder)
        IN /\ reuse => created
           /\ ~created => faults < MaxFaults
           /\ faults' = IF created THEN faults ELSE faults + 1
           /\ m_course_files' = rest
           /\ IF reuse
              THEN /\ vector_stores_info' =
                         With(vector_stores_info, folder,
                              [vector_store_id |-> existing_mapping[folder].vector_store_id,
                               files |-> IF "files" \in DOMAIN existing_mapping[folder]
                                         THEN existing_mapping[folder].files ELSE <<>>])
                   /\ stats' = [stats EXCEPT !.vector_stores_reused = @ + 1]
                   /\ up_store' = existing_mapping[folder].vector_store_id
                   /\ UNCHANGED m_log
              ELSE IF created
              THEN /\ vector_stores_info' =
                         With(vector_stores_info, folder,
                              [vector_store_id |-> NewStoreId(folder), files |-> <<>>])
                   /\ stats' = [stats EXCEPT !.vector_stores_created = @ + 1]
                   /\ up_store' = NewStoreId(folder)
                   /\ m_log' = [m_log EXCEPT !.created = @ \cup {folder},
                                              !.stores = @ \cup {NewStoreId(folder)}]
              ELSE /\ up_store' = NoStore
                   /\ m_log' = [m_log EXCEPT !.refused = @ \cup {folder}]
                   /\ UNCHANGED <<vector_stores_info, stats>>
           /\ IF created
              THEN /\ up_course' = folder
                   /\ up_files' = m_course_files[folder]
                   /\ m_pc' = "files"
              ELSE /\ up_course' = <<>>
                   /\ up_files' = {}
                   /\ m_pc' = NextUploadStep({}, DOMAIN rest)
    /\ UNCHANGED <<run, m_cfg, local, report_file, todo_courses, cur_course, course_stats,
                   todo, existing_mapping, DiskVars>>
    /\ UNCHANGED OutsideMain
    /\ UNCHANGED SyncVars

\* Lines 834-837: the record of an uploaded file.
FileRecord(file_path, sep) ==
    [path |-> RelativePath(file_path, sep), file_id |-> [doc |-> file_path, uploaded_in |-> run]]

AppendFile(mapping, folder, rec) ==
    [mapping EXCEPT ![folder] = [@ EXCEPT !.files = Append(@, rec)]]

RemainingUploadsAbortOnFailure(rest, success) == IF success THEN rest ELSE {}

\* Lines 825-840: the for loop over the files of a course goes on with the
\* files that remain, whatever upload_to_vector_store has returned.
RemainingUploads(rest, success) == rest

\* What the two requests of upload_to_vector_store can give: both succeed,
\* files.create raises, or vector_stores.files.create raises after the
\* document has been created.
UploadOutcomes == {"ok", "upload_failed", "attach_failed"}

UploadedIfDocumentCreated(outcome) == outcome # "upload_failed"

\* Lines 318-332: upload_to_vector_store returns True when neither request
\* has raised.
Uploaded(outcome) == outcome = "ok"

\* Lines 316-341 and 825-842: one file of the course is uploaded and attached
\* to the store; the record is appended when both succeeded. The list of a
\* reused entry is the list object of existing_mapping, which sees the
\* append too.
UploadFile ==
    /\ m_pc = "files"
    /\ up_files # {}
    /\ \E file_path \in up_files, outcome \in UploadOutcomes :
        LET ok == Uploaded(outcome)
            rest == RemainingUploads(up_files \ {file_path}, ok)
        IN /\ outcome # "ok" => faults < MaxFaults
           /\ faults' = IF outcome = "ok" THEN faults ELSE faults + 1
           /\ up_files' = rest
           /\ m_log' = [m_log EXCEPT
                           !.tried = Append(@, [course |-> up_course, file |-> file_path,
                                                success |-> ok]),
                           !.uploaded = IF ok THEN @ \cup {file_path} ELSE @,
                           !.documents = IF outcome # "upload_failed"
                                         THEN @ \cup {file_path} ELSE @,
                           !.attached = IF outcome = "ok" THEN @ \cup {file_path} ELSE @]
           /\ IF ok
              THEN /\ vector_stores_info' =
                         AppendFile(vector_stores_info, up_course,
                                    FileRecord(file_path, m_cfg.sep))
                   /\ existing_mapping' =
                         IF HasStore(existing_mapping, up_course)
                            /\ "files" \in DOMAIN existing_mapping[up_course]
                         THEN AppendFile(existing_mapping, up_course,
                                         FileRecord(file_path, m_cfg.sep))
                         ELSE existing_mapping
                   /\ stats' = [stats EXCEPT !.files_uploaded_to_vector_store = @ + 1]
              ELSE /\ stats' = [stats EXCEPT
                                   !.files_upload_failed = @ + 1,
                                   !.errors = Append(@, [course |-> up_course,
                                                         file |-> file_path[Len(file_path)],
                                                         error |-> "upload failed"])]
                   /\ UNCHANGED <<vector_stores_info, existing_mapping>>
           /\ m_pc' = NextUploadStep(rest, DOMAIN m_course_files)
    /\ UNCHANGED <<run, m_cfg, local, report_file, todo_courses, cur_course, course_stats,
                   todo, m_course_files, up_course, up_store, DiskVars>>
    /\ UNCHANGED OutsideMain
    /\ UNCHANGED SyncVars

\* Lines 844-847: the courses of the existing mapping that got no entry in
\* this run are taken over.
MergeDropUntouched(info, mapping) == info

Merge(info, mapping) ==
    [folder \in DOMAIN info \cup DOMAIN mapping |->
        IF folder \in DOMAIN info THEN info[folder] ELSE mapping[folder]]

\* The mapping file once open(..., 'w') has truncated it and before the JSON
\* text is written completely.
Truncated == [exists |-> TRUE, complete |-> FALSE, data |-> <<>>]

\* Lines 844-851: the merge, and the mapping file is opened for writing,
\* which truncates it.
SaveOpen ==
    /\ m_pc = "save"
    /\ vector_stores_info' = Merge(vector_stores_info, existing_mapping)
    /\ m_log' = [m_log EXCEPT
                    !.before_save = mapping_file,
                    !.merged = MappingJson(Merge(vector_stores_info, existing_mapping))]
    /\ mapping_file' = Truncated
    /\ m_pc' = "write"
    /\ UNCHANGED <<run, faults, m_cfg, local, report_file, stats, todo_courses, cur_course,
                   course_stats, todo, existing_mapping, m_course_files, up_course, up_store,
                   up_files, inaccessible_file>>
    /\ UNCHANGED OutsideMain
    /\ UNCHANGED SyncVars

\* Line 852: json.dump writes the merged mapping and the file is closed.
SaveWrite ==
    /\ m_pc = "write"
    /\ mapping_file' = MappingJson(vector_stores_info)
    /\ m_log' = [m_log EXCEPT !.saves = @ + 1]
    /\ m_pc' = "report"
    /\ UNCHANGED <<run, faults, m_cfg, local, report_file, stats, todo_courses, cur_course,
                   course_stats, todo, existing_mapping, m_course_files, vector_stores_info,
                   up_course, up_store, up_files, inaccessible_file>>
    /\ UNCHANGED OutsideMain
    /\ UNCHANGED SyncVars

\* Lines 904-945: the report is written, and the list of inaccessible files
\* when the process has recorded any.
WriteReport ==
    /\ m_pc = "report"
    /\ report_file' = [exists |-> TRUE, statistics |-> stats]
    /\ inaccessible_file' =
          IF stats.inaccessible_files # <<>>
          THEN InaccessibleJson(stats.inaccessible_files)
          ELSE inaccessible_file
    /\ m_pc' = "done"
    /\ m_log' = [m_log EXCEPT !.reported = TRUE]
    /\ UNCHANGED <<run, faults, m_cfg, local, stats, todo_courses, cur_course, course_stats,
                   todo, existing_mapping, m_course_files, vector_stores_info, up_course,
                   up_store, up_files, mapping_file>>
    /\ UNCHANGED OutsideMain
    /\ UNCHANGED SyncVars

\* The process is interrupted (killed, power loss) while main runs: its
\* memory is lost, the files stay as they are.
Kill ==
    /\ Running
    /\ faults < MaxFaults
    /\ faults' = faults + 1
    /\ m_pc' = "killed"
    /\ stats' = InitialStats
    /\ ClearRun
    /\ m_log' = [m_log EXCEPT !.killed_at = m_pc, !.interrupted = @ \cup {run}]
    /\ UNCHANGED <<run, m_cfg, local, report_file, DiskVars>>
    /\ UNCHANGED OutsideMain
    /\ UNCHANGED SyncVars

\* Lines 178-182 and 217-232: the module-level state of api_server.py once
\* the module is imported, before startup_event.
InitAgentOff ==
    /\ agent_initialized = FALSE
    /\ manager_initialized = FALSE
    /\ started = FALSE
    /\ ws_open = FALSE
    /\ api_replies = <<>>

\* Line 865: no sync has been asked for; the rest of the server is as the
\* import has left it.
InitSyncIdle ==
    /\ is_running = FALSE
    /\ sync_scheduled = 0
    /\ sync_running = 0
    /\ sync_replies = <<>>
    /\ InitAgentOff

\* ------------------------------------------------------------------------
\* The API server: POST /api/sync-files and its background task
\* ------------------------------------------------------------------------
\* Lines 882: the arguments run_file_sync gives to main; the environment of
\* the server has the Canvas settings and a usable vector store client.
SyncConfig ==
    [canvas |-> TRUE, upload |-> TRUE, skip_download |-> FALSE, course_id |-> "None",
     auto_confirm |-> TRUE, server |-> TRUE]

AlreadyRunningNever(flag) == FALSE

\* Line 838: the test sync_files makes before it starts a sync.
AlreadyRunning(flag) == flag

\* main has returned to run_file_sync, which resets the flag in the same
\* turn of the event loop: no request is handled in between.
SyncReturning == sync_running > 0 /\ m_pc = "done"

\* Lines 834-851: one request, handled without an await: the test of the
\* flag, the assignment and add_task are one step of the event loop. The
\* handler at line 853 is not reached: neither the assignment nor add_task,
\* which appends to a list, raises.
SyncFiles ==
    /\ Len(sync_replies) < MaxSyncRequests
    /\ ~SyncReturning
    /\ ~AlreadyRunning(is_running) => run + sync_scheduled < MaxRuns
    /\ IF AlreadyRunning(is_running)
       THEN /\ sync_replies' = Append(sync_replies, "already_running")
            /\ UNCHANGED <<is_running, sync_scheduled>>
       ELSE /\ is_running' = TRUE
            /\ sync_scheduled' = sync_scheduled + 1
            /\ sync_replies' = Append(sync_replies, "started")
    /\ UNCHANGED sync_running
    /\ UNCHANGED <<FetchVars, DiskVars, StatusVars, MainVars, AgentVars>>

\* Lines 868-882: the background task starts after the answer was sent and
\* calls main, which runs to its first await. The statistics of the
\* downloader are those of the server process. The model holds one call of
\* main, so a task starts when none is in main.
SyncBegin ==
    /\ sync_scheduled > 0
    /\ sync_running = 0
    /\ m_pc \in {"idle", "done"}
    /\ run < MaxRuns
    /\ RunMain(SyncConfig, m_pc = "idle")
    /\ sync_scheduled' = sync_scheduled - 1
    /\ sync_running' = sync_running + 1
    /\ UNCHANGED <<is_running, sync_replies>>

FlagKept(flag) == flag

\* Lines 884 and 888: the value run_file_sync gives the flag on both ways
\* out, after the return of main and in the handler of an exception.
FlagReleased(flag) == FALSE

\* Lines 884 and 888: main has returned or raised; the flag is reset.
SyncEnd ==
    /\ SyncReturning
    /\ is_running' = FlagReleased(is_running)
    /\ sync_running' = sync_running - 1
    /\ UNCHANGED <<sync_scheduled, sync_replies>>
    /\ UNCHANGED <<FetchVars, DiskVars, StatusVars, MainVars, AgentVars>>

InitMainIdle ==
    /\ m_pc = "idle"
    /\ run = 0
    /\ faults = 0
    /\ local = <<>>
    /\ report_file = Absent
    /\ stats = InitialStats
    /\ todo_courses = <<>>
    /\ cur_course = NoCourse
    /\ course_stats = InitialCourseStats
    /\ todo = <<>>
    /\ existing_mapping = <<>>
    /\ m_course_files = <<>>
    /\ vector_stores_info = <<>>
    /\ up_course = <<>>
    /\ up_store = NoStore
    /\ up_files = {}
    /\ m_log = EmptyLog

\* No main is run: the state of the downloader in the specifications of the
\* other operations.
InitMainOff ==
    /\ InitMainIdle
    /\ m_cfg = [canvas |-> TRUE, upload |-> TRUE, skip_download |-> FALSE,
                course_id |-> "None", auto_confirm |-> TRUE, server |-> FALSE, sep |-> "/"]

\* A new installation: nothing below DOWNLOAD_ROOT, on a platform whose path
\* separator is sep.
InitMainOn(sep) ==
    /\ InitMainIdle
    /\ m_cfg = [canvas |-> TRUE, upload |-> TRUE, skip_download |-> FALSE,
                course_id |-> "None", auto_confirm |-> TRUE, server |-> FALSE, sep |-> sep]
    /\ mapping_file = Absent
    /\ inaccessible_file = Absent

\* os.sep of a POSIX platform and of Windows.
InitMain == InitMainOn("/")

InitMainWindows == InitMainOn("\\")

NextMain ==
    \/ StartRun
    \/ GetCourses
    \/ BeginCourse
    \/ ProcessItem
    \/ ProcessEmbedded
    \/ ProcessFilesArea
    \/ ProcessAreaFile
    \/ EndCourse
    \/ ScanForUpload
    \/ UploadCourse
    \/ UploadFile
    \/ SaveOpen
    \/ SaveWrite
    \/ WriteReport
    \/ Kill

\* ------------------------------------------------------------------------
\* Specifications
\* ------------------------------------------------------------------------
\* fetch_all_pages alone.
InitFetch ==
    /\ InitFetchCall
    /\ InitStatusIdle
    /\ InitMainOff
    /\ InitSyncIdle
    /\ mapping_file = Absent
    /\ inaccessible_file = Absent
NextFetch == FetchIteration
SpecFetch == InitFetch /\ [][NextFetch]_vars

\* check_index_status alone.
InitStatus ==
    InitStatusCall /\ InitFetchIdle /\ InitMainOff /\ InitSyncIdle /\ InitDiskStatus
SpecStatus == InitStatus /\ [][NextStatus]_vars

\* The runs of the downloader.
Init == InitMain /\ InitFetchIdle /\ InitStatusIdle /\ InitSyncIdle
Next == NextMain
Spec == Init /\ [][Next]_vars

\* The same runs on Windows.
InitWindows == InitMainWindows /\ InitFetchIdle /\ InitStatusIdle /\ InitSyncIdle
SpecWindows == InitWindows /\ [][Next]_vars

\* The runs of the downloader on an installation that an earlier process has
\* left: a full sync without upload (no vector store client) in which the
\* download of g.txt of the Files area of course 1 answered 403, the
\* download of h.pdf of course 2 answered another error status, and every
\* other request succeeded. run and faults count from this state on.
DeniedRunCourse == RemoteCourses[1]

DeniedRunRecord ==
    [course |-> CourseName(DeniedRunCourse), file_name |-> RemoteFiles.f2.display_name,
     file_id |-> "f2", error |-> "403 Forbidden"]

DeniedRunStats ==
    [InitialStats EXCEPT
        !.courses = 2, !.modules = 1, !.files_total = 3, !.files_downloaded = 2,
        !.files_skipped = 1, !.files_failed = 3, !.files_inaccessible = 1, !.total_size = 1,
        !.inaccessible_files = <<DeniedRunRecord>>,
        !.errors = << [course |-> CourseName(DeniedRunCourse),
                       file |-> sanitize_filename(RemoteFiles.f2.display_name),
                       error |-> "403 Forbidden"],
                      [course |-> CourseName(DeniedRunCourse),
                       file |-> sanitize_filename(RemoteFiles.f4.display_name),
                       error |-> "no url"],
                      [course |-> CourseName(RemoteCourses[2]),
                       file |-> sanitize_filename(RemoteFiles.f3.display_name),
                       error |-> "HTTP status"] >>]

DeniedRunLocal ==
    LET c1 == RemoteCourses[1]
        c2 == RemoteCourses[2]
        d1 == MakeDir(<<>>, <<CourseFolder(c1)>>)
        f1 == WriteFile(d1, ModulePath(c1, <<"m">>, RemoteFiles.f1.display_name),
                        RemoteFiles.f1.size)
        p1 == WriteFile(f1, ModulePath(c1, <<"m">>, <<"p", ".", "html">>),
                        Len(RemotePages.p1.body))
    IN MakeDir(p1, <<CourseFolder(c2)>>)

\* The state main leaves at the end of that run (m_log apart).
AfterDeniedRun ==
    /\ m_pc = "done"
    /\ m_cfg \in [canvas : {TRUE}, upload : {FALSE}, skip_download : {FALSE},
                  course_id : {"None"}, auto_confirm : {TRUE}, server : {FALSE},
                  sep : {"/", "\\"}]
    /\ local = DeniedRunLocal
    /\ report_file = [exists |-> TRUE, statistics |-> DeniedRunStats]
    /\ stats = DeniedRunStats
    /\ mapping_file = Absent
    /\ inaccessible_file = InaccessibleJson(<<DeniedRunRecord>>)
    /\ todo_courses = <<>>
    /\ cur_course = NoCourse
    /\ course_stats = InitialCourseStats
    /\ todo = <<>>
    /\ existing_mapping = <<>>
    /\ m_course_files = <<>>
    /\ vector_stores_info = <<>>
    /\ up_course = <<>>
    /\ up_store = NoStore
    /\ up_files = {}

InitLater ==
    /\ AfterDeniedRun
    /\ run = 0
    /\ faults = 0
    /\ m_log = [EmptyLog EXCEPT !.reported = TRUE]
    /\ InitFetchIdle
    /\ InitStatusIdle
    /\ InitSyncIdle

NextLater == NextMain
SpecLater == InitLater /\ [][NextLater]_vars

\* The runs of the downloader on an installation whose mirror holds a file
\* that the remote no longer lists: an earlier process has made a full sync
\* without upload, with no failure, when the Files area of course 2 also
\* listed o.pdf, a file of one byte more than MAX_FILE_SIZE.
RemovedFile ==
    [id |-> "f5", display_name |-> <<"o", ".", "pdf">>, size |-> MAX_FILE_SIZE + 1,
     url |-> TRUE]

MirrorRunStats ==
    [InitialStats EXCEPT
        !.courses = 2, !.modules = 1, !.files_total = 6, !.files_downloaded = 5,
        !.files_skipped = 1, !.files_failed = 1,
        !.total_size = RemoteFiles.f1.size + RemoteFiles.f2.size + RemoteFiles.f3.size
                       + RemovedFile.size,
        !.errors = << [course |-> CourseName(RemoteCourses[1]),
                       file |-> sanitize_filename(RemoteFiles.f4.display_name),
                       error |-> "no url"] >>]

MirrorRunLocal ==
    LET c1 == RemoteCourses[1]
        c2 == RemoteCourses[2]
        d1 == MakeDir(<<>>, <<CourseFolder(c1)>>)
        p1 == WriteFile(d1, ModulePath(c1, <<"m">>, <<"p", ".", "html">>),
                        Len(RemotePages.p1.body))
        f1 == WriteFile(p1, ModulePath(c1, <<"m">>, RemoteFiles.f1.display_name),
                        RemoteFiles.f1.size)
        f2 == WriteFile(f1, FilesPath(c1, RemoteFiles.f2.display_name), RemoteFiles.f2.size)
        d2 == MakeDir(f2, <<CourseFolder(c2)>>)
        f3 == WriteFile(d2, FilesPath(c2, RemoteFiles.f3.display_name), RemoteFiles.f3.size)
    IN WriteFile(f3, FilesPath(c2, RemovedFile.display_name), RemovedFile.size)

InitMirrorMain ==
    /\ m_pc = "done"
    /\ faults = 0
    /\ m_cfg = [canvas |-> TRUE, upload |-> FALSE, skip_download |-> FALSE,
                course_id |-> "None", auto_confirm |-> TRUE, server |-> FALSE, sep |-> "/"]
    /\ local = MirrorRunLocal
    /\ report_file = [exists |-> TRUE, statistics |-> MirrorRunStats]
    /\ stats = MirrorRunStats
    /\ todo_courses = <<>>
    /\ cur_course = NoCourse
    /\ course_stats = InitialCourseStats
    /\ todo = <<>>
    /\ existing_mapping = <<>>
    /\ m_course_files = <<>>
    /\ vector_stores_info = <<>>
    /\ up_course = <<>>
    /\ up_store = NoStore
    /\ up_files = {}
    /\ m_log = [EmptyLog EXCEPT !.reported = TRUE]

InitMirror ==
    /\ InitMirrorMain
    /\ run = 0
    /\ mapping_file = Absent
    /\ inaccessible_file = Absent
    /\ InitFetchIdle
    /\ InitStatusIdle
    /\ InitSyncIdle

SpecMirror == InitMirror /\ [][Next]_vars

\* check_index_status called beside that mirror, with or without a mapping
\* file and a list of inaccessible files below DOWNLOAD_ROOT.
MirrorMappings ==
    {mp \in StoredMappings : DOMAIN mp = {<<"a">>} /\ Len(mp[<<"a">>].files) = 1}

InitStatusMirror ==
    /\ InitStatusCall
    /\ InitMirrorMain
    /\ run = 0
    /\ mapping_file \in {Absent} \cup {MappingJson(mp) : mp \in MirrorMappings}
    /\ inaccessible_file \in
          {Absent} \cup {InaccessibleJson(<<rec>>) : rec \in InaccessibleRecords}
    /\ InitFetchIdle
    /\ InitSyncIdle

SpecStatusMirror == InitStatusMirror /\ [][NextStatus]_vars

\* The runs of the downloader on an installation whose earlier process was
\* interrupted inside the write loop of download_file (lines 136-138), after
\* open(file_path, 'wb') and before the last chunk of f.pdf: the page of the
\* module is on disk, f.pdf is there with fewer bytes than the remote declares.
InterruptedPath ==
    ModulePath(RemoteCourses[1], <<"m">>, sanitize_filename(RemoteFiles.f1.display_name))

InterruptedLocal ==
    LET c1 == RemoteCourses[1]
        d1 == MakeDir(<<>>, <<CourseFolder(c1)>>)
        p1 == WriteFile(d1, ModulePath(c1, <<"m">>, <<"p", ".", "html">>),
                        Len(RemotePages.p1.body))
    IN WriteFile(p1, InterruptedPath, RemoteFiles.f1.size - 1)

InitInterrupted ==
    /\ m_pc = "killed"
    /\ run = 0
    /\ faults = 0
    /\ m_cfg = [canvas |-> TRUE, upload |-> TRUE, skip_download |-> FALSE,
                course_id |-> "None", auto_confirm |-> TRUE, server |-> FALSE, sep |-> "/"]
    /\ local = InterruptedLocal
    /\ report_file = Absent
    /\ stats = InitialStats
    /\ mapping_file = Absent
    /\ inaccessible_file = Absent
    /\ todo_courses = <<>>
    /\ cur_course = NoCourse
    /\ course_stats = InitialCourseStats
    /\ todo = <<>>
    /\ existing_mapping = <<>>
    /\ m_course_files = <<>>
    /\ vector_stores_info = <<>>
    /\ up_course = <<>>
    /\ up_store = NoStore
    /\ up_files = {}
    /\ m_log = [EmptyLog EXCEPT !.killed_at = "items"]
    /\ InitFetchIdle
    /\ InitStatusIdle
    /\ InitSyncIdle

SpecInterrupted == InitInterrupted /\ [][Next]_vars

\* The API server with its sync endpoint: requests arrive at any moment,
\* between the steps of the sync that runs in the background.
NextSync ==
    \/ SyncFiles
    \/ SyncBegin
    \/ GetCourses
    \/ BeginCourse
    \/ ProcessItem
    \/ ProcessEmbedded
    \/ ProcessFilesArea
    \/ ProcessAreaFile
    \/ EndCourse
    \/ ScanForUpload
    \/ UploadCourse
    \/ UploadFile
    \/ SaveOpen
    \/ SaveWrite
    \/ WriteReport
    \/ SyncEnd
SpecSync == Init /\ [][NextSync]_vars

\* The steps of the background task. The event loop of the server runs a
\* task that was added until it ends: every request of main has a timeout
\* and main asks nothing of the user when auto_confirm is set, so a step of
\* the task that can be taken is taken. Requests may stop coming.
SyncWork ==
    \/ SyncBegin
    \/ GetCourses
    \/ BeginCourse
    \/ ProcessItem
    \/ ProcessEmbedded
    \/ ProcessFilesArea
    \/ ProcessAreaFile
    \/ EndCourse
    \/ ScanForUpload
    \/ UploadCourse
    \/ UploadFile
    \/ SaveOpen
    \/ SaveWrite
    \/ WriteReport
    \/ SyncEnd
\* The position of the task: every step of SyncWork changes it.
SyncPosition ==
    <<m_pc, run, todo_courses, todo, m_course_files, up_files, sync_scheduled, sync_running>>

\* The server is started on the installation that a run from the command
\* line has left; that run is the first run of the behaviour.
InitSyncMirror ==
    /\ InitMirrorMain
    /\ run = 1
    /\ mapping_file = Absent
    /\ inaccessible_file = Absent
    /\ InitFetchIdle
    /\ InitStatusIdle
    /\ InitSyncIdle

SpecSyncFair == InitSyncMirror /\ [][NextSync]_vars /\ WF_SyncPosition(SyncWork)

\* The two page loops: a call of fetch_all_pages, or a status check.
InitPaging == InitFetch \/ InitStatus
NextPaging == FetchIteration \/ StatusStart \/ StatusPage \/ StatusReconcile
SpecPaging == InitPaging /\ [][NextPaging]_vars

\* ------------------------------------------------------------------------
\* Properties of the reconciliation (SpecStatus)
\* ------------------------------------------------------------------------
\* The three key sets of the run, as the handler derives them.
SetR == canvas_file_names
SetI == IndexedFileNames(mapping_file)
SetInaccessible == InaccessibleFilesSet(inaccessible_file)

Reconciled == s_pc = "done" /\ s_result.status = "success"

\* C1 as stated: whenever the reconciliation has produced a report,
\* missing \cup (R \cap I) = R, missing \cap (R \cap I) = {} and no
\* inaccessible key is in missing.
C1_PartitionAsStated ==
    Reconciled =>
        /\ s_result.missing_files \cup (SetR \cap SetI) = SetR
        /\ s_result.missing_files \cap (SetR \cap SetI) = {}
        /\ s_result.missing_files \cap SetInaccessible = {}

\* C1 amended: whenever the reconciliation has produced a report, R is
\* partitioned into missing, R \cap I and the inaccessible remote keys that
\* are not indexed: the three are pairwise disjoint, their union is R, and no
\* inaccessible key is in missing.
C1_Partition ==
    Reconciled =>
        LET missing == s_result.missing_files
            indexed == SetR \cap SetI
            refused == (SetR \cap SetInaccessible) \ SetI
        IN /\ missing \cup indexed \cup refused = SetR
           /\ missing \cap indexed = {}
           /\ missing \cap refused = {}
           /\ indexed \cap refused = {}
           /\ missing \cap SetInaccessible = {}

\* A report over a remote set that holds an indexed key and an inaccessible
\* key that is not indexed.
C1_Witness ==
    /\ Reconciled
    /\ SetR \cap SetI # {}
    /\ (SetR \cap SetInaccessible) \ SetI # {}

\* C2: whenever the reconciliation has produced a report, a key is missing
\* exactly when it is remote, not indexed and not inaccessible, a key is
\* extra exactly when it is indexed and not remote, and the reported counts
\* are the sizes of these sets.
C2_MissingAndExtra ==
    Reconciled =>
        /\ \A k \in SetR \cup SetI \cup SetInaccessible \cup s_result.missing_files
                    \cup s_result.extra_files :
              /\ k \in s_result.missing_files
                    <=> (k \in SetR /\ k \notin SetI /\ k \notin SetInaccessible)
              /\ k \in s_result.extra_files <=> (k \in SetI /\ k \notin SetR)
        /\ s_result.missing_files_count = Cardinality((SetR \ SetI) \ SetInaccessible)
        /\ s_result.extra_files_count = Cardinality(SetI \ SetR)

\* A report with a missing key, an extra key and a remote key that is left
\* out of missing because it is inaccessible.
C2_Witness ==
    /\ Reconciled
    /\ s_result.missing_files # {}
    /\ s_result.extra_files # {}
    /\ (SetR \ SetI) \cap SetInaccessible # {}

\* C3: the reported status is no_index exactly when I is empty, otherwise
\* partial_index exactly when missing is not empty, otherwise up_to_date.
C3_StatusClassification ==
    Reconciled =>
        /\ s_result.index_status = "no_index" <=> SetI = {}
        /\ s_result.index_status = "partial_index"
              <=> (SetI # {} /\ (SetR \ SetI) \ SetInaccessible # {})
        /\ s_result.index_status = "up_to_date"
              <=> (SetI # {} /\ (SetR \ SetI) \ SetInaccessible = {})

\* An up_to_date report although a remote key is not indexed (it is
\* inaccessible), next to which no_index with missing keys is reachable too.
C3_Witness ==
    /\ Reconciled
    /\ s_result.index_status = "up_to_date"
    /\ SetI # {}
    /\ SetR \ SetI # {}

\* ------------------------------------------------------------------------
\* Properties of the paginated fetch (SpecFetch, SpecPaging)
\* ------------------------------------------------------------------------
\* The elements of the first n answers, page after page.
ServedItems(n) == Flatten([i \in 1..n |-> f_served[i].items])

Returned == f_pc = "done"

\* C8: when answer k is a non-success status or an exception, the list
\* returned is exactly the concatenation of the elements of answers 1..k-1.
C8_PartialResults ==
    (Returned /\ f_served # <<>> /\ f_served[Len(f_served)].kind # "ok")
        => all_data = ServedItems(Len(f_served) - 1)

\* The third request fails after two pages that both carried elements.
C8_Witness ==
    /\ Returned
    /\ Len(f_served) = 3
    /\ f_served[3].kind \in {"status", "raise"}
    /\ f_served[1].items # <<>>
    /\ f_served[2].items # <<>>
    /\ all_data = f_served[1].items \o f_served[2].items

\* C9: when every answer is a success, the list returned is the concatenation
\* of the elements of all answers in the order served, and every request after
\* the first went to a next link of the answer before it.
C9_AllPagesInOrder ==
    (Returned /\ \A i \in 1..Len(f_served) : f_served[i].kind = "ok")
        => /\ all_data = ServedItems(Len(f_served))
           /\ \A i \in 1..(Len(f_served) - 1) :
                 f_served[i + 1].url \in f_served[i].nexts

\* Three pages, all successful, the same element on two of them and a page
\* with two elements.
C9_Witness ==
    /\ Returned
    /\ Len(f_served) = 3
    /\ \A i \in 1..3 : f_served[i].kind = "ok"
    /\ f_served[1].items = <<"e1">>
    /\ f_served[2].items = <<"e2", "e1">>
    /\ f_served[3].items = <<"e1">>
    /\ all_data = <<"e1", "e2", "e1", "e1">>

\* C10 as stated: in both page loops (fetch_all_pages and the loop of the
\* status check), a request is issued after an answer only if that answer was
\* a success with a next link and with at least one element.
C10_StopsAsStated ==
    /\ \A i \in 1..(Len(f_served) - 1) :
          /\ f_served[i].kind = "ok"
          /\ f_served[i].nexts # {}
          /\ f_served[i].items # <<>>
    /\ \A i \in 1..(Len(s_served) - 1) :
          /\ s_served[i].kind = "ok"
          /\ s_served[i].next
          /\ ~s_served[i].empty

\* C10 amended: fetch_all_pages issues a request after an answer only if that
\* answer was a success with a next link (a page of zero elements with a next
\* link does not stop it), and it has returned once an answer is not a success
\* or has no next link; the page loop of the status check issues a request
\* after an answer only if that answer was a success with a next link and at
\* least one file.
C10_Stops ==
    /\ \A i \in 1..(Len(f_served) - 1) :
          /\ f_served[i].kind = "ok"
          /\ f_served[i].nexts # {}
    /\ (f_served # <<>> /\ (f_served[Len(f_served)].kind # "ok"
                             \/ f_served[Len(f_served)].nexts = {}))
          => Returned
    /\ \A i \in 1..(Len(s_served) - 1) :
          /\ s_served[i].kind = "ok"
          /\ s_served[i].next
          /\ ~s_served[i].empty

\* fetch_all_pages has returned after an answer without next link, having
\* followed the next link of an empty page before.
C10_Witness ==
    /\ Returned
    /\ Len(f_served) = 2
    /\ f_served[1].items = <<>>
    /\ f_served[1].nexts # {}
    /\ f_served[2].kind = "ok"
    /\ f_served[2].nexts = {}

\* ------------------------------------------------------------------------
\* Claims about the runs of the downloader
\* ------------------------------------------------------------------------
Calls == {m_log.calls[i] : i \in 1..Len(m_log.calls)}

\* The run is a full sync, the run before it was a full sync that ended with
\* its report, and nothing has failed in either.
SecondFullSync ==
    /\ m_pc \in {"courses", "course", "items", "scan", "upload", "files", "save", "write",
                 "report", "done"}
    /\ FullSync(m_cfg)
    /\ m_log.after_full
    /\ faults = 0

\* C4 (as stated): in a full sync that follows a full sync, with no remote
\* change and no failure, no download is requested, no file is written,
\* stats["files_downloaded"] does not grow and no file is uploaded.
C4_Idempotence ==
    SecondFullSync =>
        /\ \A call \in Calls : ~call.requested
        /\ m_log.written = {}
        /\ stats.files_downloaded = m_log.downloaded_at_start
        /\ m_log.uploaded = {}

\* C5 (as stated): for every call of download_file, a local file of the
\* declared size gives "exists" without a request, and an absent file or one
\* of another size gives a request.
C5_StalenessAsStated ==
    \A call \in Calls :
        /\ call.before = call.size => (call.msg = "exists" /\ ~call.requested)
        /\ call.before # call.size => call.requested

\* C5 (amended): the same for every call of download_file whose file carries
\* a download URL; without one the call fails and issues no request,
\* whatever the local file.
C5_Staleness ==
    \A call \in Calls :
        /\ (call.url /\ call.before = call.size) =>
              (call.success /\ call.msg = "exists" /\ ~call.requested /\ ~call.wrote)
        /\ (call.url /\ call.before # call.size) => call.requested
        /\ ~call.url => (~call.success /\ ~call.requested /\ ~call.wrote)

\* A run in which one file was found with the declared size and skipped, one
\* was found with another size and requested again, and one was absent.
C5_Witness ==
    /\ \E call \in Calls : call.url /\ call.before = call.size /\ call.msg = "exists"
    /\ \E call \in Calls :
          call.url /\ call.before \notin {Missing, call.size} /\ call.requested /\ call.wrote
    /\ \E call \in Calls : call.url /\ call.before = Missing /\ call.requested

\* The run has saved the mapping file over a complete earlier one.
SavedOverMapping ==
    /\ m_log.saves = 1
    /\ m_log.before_save.exists
    /\ m_log.before_save.complete

UploadedFor(folder) == {q \in m_log.uploaded : q[1] = folder}

\* C6: a course that has an entry in the mapping file and for which the run
\* uploads nothing has the same entry (store id and file records) in the
\* mapping file after the save of the run.
C6_MergePreserves ==
    SavedOverMapping =>
        \A folder \in DOMAIN m_log.before_save.data :
            UploadedFor(folder) = {} =>
                /\ mapping_file.exists
                /\ mapping_file.complete
                /\ folder \in DOMAIN mapping_file.data
                /\ mapping_file.data[folder] = m_log.before_save.data[folder]

\* A save after uploads for another course only: the course of the earlier
\* mapping has records and the run has added a course to the mapping.
C6_Witness ==
    /\ SavedOverMapping
    /\ m_log.uploaded # {}
    /\ \E folder \in DOMAIN m_log.before_save.data :
          /\ UploadedFor(folder) = {}
          /\ m_log.before_save.data[folder].files # <<>>
          /\ mapping_file.data[folder] = m_log.before_save.data[folder]
          /\ DOMAIN mapping_file.data # {folder}

\* C7 (as stated): when the process is interrupted while the mapping file is
\* written, the file is the earlier mapping file or the merged mapping.
C7_AtomicSave ==
    (m_pc = "killed" /\ m_log.killed_at = "write") =>
        mapping_file \in {m_log.before_save, m_log.merged}

\* ------------------------------------------------------------------------
\* Claims about files the remote denies (403)
\* ------------------------------------------------------------------------
CourseById(id) == CHOOSE c \in Range(RemoteCourses) : c.id = id

\* The calls of download_file of the run that were answered 403, for a file
\* that was not in the mirror and that no other call of the run asked for
\* with another answer.
DeniedCalls ==
    {call \in Calls :
        /\ call.msg = "403 Forbidden"
        /\ call.before = Missing
        /\ \A other \in Calls : other.path = call.path => other.msg = "403 Forbidden"}

\* Lines 146-151: the record download_file appends for a denied call.
DeniedRecord(call) ==
    [course |-> CourseName(CourseById(call.course)),
     file_name |-> RemoteFiles[call.file].display_name,
     file_id |-> call.file,
     error |-> "403 Forbidden"]

\* api_server.py lines 667 and 685-688: the key check_index_status gives to
\* a file of a course of the remote.
StatusKey(c, f) == CompositeKey(StatusCourseName(c), StatusFileName(f))

\* The set canvas_file_names of a check_index_status whose requests all
\* succeed: the keys of the files of the Files areas.
RemoteKeys ==
    UNION { {StatusKey(c, RemoteFiles[c.files[i]]) : i \in 1..Len(c.files)} :
              c \in Range(RemoteCourses) }

\* The set missing_files of a check_index_status that is run now and whose
\* requests all succeed.
MissingNow ==
    MissingFiles(RemoteKeys, IndexedFileNames(mapping_file),
                 InaccessibleFilesSet(inaccessible_file))

\* The run has ended with its report.
RunReported == m_pc = "done" /\ m_log.reported

\* C11 (as stated): for every download that answered 403, the record of the
\* course and the file is in the list of the run, the file is not in the
\* mirror, and when the run has ended the record is in
\* inaccessible_files.json and a status check does not list the key of the
\* file as missing.
C11_Denied ==
    \A call \in DeniedCalls :
        /\ DeniedRecord(call) \in Range(stats.inaccessible_files)
        /\ ~FileExists(local, call.path)
        /\ RunReported =>
              /\ inaccessible_file.exists
              /\ DeniedRecord(call) \in Range(inaccessible_file.data)
              /\ StatusKey(CourseById(call.course), RemoteFiles[call.file]) \notin MissingNow

\* C12 (as stated): a download that answered 403 adds nothing to the error
\* list and nothing to the failed files; it adds one to the inaccessible
\* files and one record to their list.
C12_DeniedNotFailed ==
    \A call \in Calls :
        call.msg = "403 Forbidden" =>
            /\ call.counted.errs = 0
            /\ call.counted.failed = 0
            /\ call.counted.denied = 1
            /\ call.counted.records = 1

\* The keys of the records in inaccessible_files.json.
PersistedKeys == InaccessibleFilesSet(inaccessible_file)

\* C13 (as stated): a key that is in inaccessible_files.json stays in it, and
\* out of the missing files of a status check, whatever main does.
C13_Permanent ==
    [][\A key \in PersistedKeys : key \in PersistedKeys' /\ key \notin MissingNow']_vars

\* The calls of download_file whose request ended with a status other than
\* 200 and 403 or with an exception, by their position in the history.
FailedCalls ==
    {i \in 1..Len(m_log.calls) :
        /\ m_log.calls[i].requested
        /\ m_log.calls[i].msg \in {"HTTP status", "exception"}}

\* C14 (as stated): such a call returns failure, its caller appends one
\* entry to the error list, and the run issues no other request for the same
\* location (the same way of discovery and the same path).
C14_FailedRecorded ==
    \A i \in FailedCalls :
        /\ ~m_log.calls[i].success
        /\ m_log.calls[i].counted.errs = 1
        /\ \A j \in 1..Len(m_log.calls) :
              (j # i /\ m_log.calls[j].via = m_log.calls[i].via
                     /\ m_log.calls[j].path = m_log.calls[i].path)
                 => ~m_log.calls[j].requested

\* ------------------------------------------------------------------------
\* Claims about failures and the work that remains
\* ------------------------------------------------------------------------
IsSuffix(a, b) == Len(a) <= Len(b) /\ SubSeq(b, Len(b) - Len(a) + 1, Len(b)) = a

\* A step of process_course on an item of a module, on a linked file or on a
\* file of the Files area, in which the item failed: its metadata or its
\* page could not be fetched, or download_file returned failure.
ItemFailedStep ==
    /\ m_pc = "items"
    /\ todo # <<>>
    /\ Head(todo).kind \in {"item", "embedded", "area_file"}
    /\ m_pc' # "killed"
    /\ \/ faults' > faults
       \/ /\ Len(m_log'.calls) > Len(m_log.calls)
          /\ ~m_log'.calls[Len(m_log'.calls)].success

\* The step of process_course after the last file of the course.
CourseEndStep == m_pc = "items" /\ todo = <<>> /\ m_pc' # "killed"

\* C15: after the failure of an item process_course is still in the course
\* with every remaining item to do and main has every remaining course to
\* do; at the end of a course main goes on to the next of them.
C15_NoAbort ==
    [][ /\ ItemFailedStep =>
              /\ m_pc' = "items"
              /\ cur_course' = cur_course
              /\ todo_courses' = todo_courses
              /\ IsSuffix(Tail(todo), todo')
        /\ CourseEndStep =>
              /\ todo_courses' = Tail(todo_courses)
              /\ Tail(todo_courses) # <<>> => m_pc' = "course" ]_vars

\* A run in which a download failed, a later download of the same course was
\* attempted and a download of a later course was attempted.
C15_Witness ==
    \E i, j, k \in 1..Len(m_log.calls) :
        /\ i < j
        /\ j < k
        /\ m_log.calls[i].requested
        /\ ~m_log.calls[i].success
        /\ m_log.calls[j].course = m_log.calls[i].course
        /\ m_log.calls[j].requested
        /\ m_log.calls[k].course # m_log.calls[i].course

\* The courses whose Files area answered 403 to get_course_files in the run.
DeniedCourses == {p.course : p \in {q \in m_log.probes : q.probe = "forbidden"}}

\* The step of process_course in which the Files area of the current course
\* answers 403.
AreaDeniedStep ==
    /\ m_pc = "items"
    /\ todo # <<>>
    /\ Head(todo).kind = "area"
    /\ [course |-> cur_course.id, probe |-> "forbidden"] \in m_log'.probes \ m_log.probes

ConfigErrorStep ==
    /\ run' = run + 1
    /\ ~m_cfg'.canvas

\* What a run has done so far: the requests of files and of Files areas,
\* the files written below DOWNLOAD_ROOT, the uploads, the stores created,
\* the saves of the mapping and the report.
NothingDone ==
    /\ m_log.calls = <<>>
    /\ m_log.probes = {}
    /\ m_log.written = {}
    /\ m_log.uploaded = {}
    /\ m_log.documents = {}
    /\ m_log.created = {}
    /\ m_log.saves = 0
    /\ ~m_log.reported

\* C17: a call of main without CANVAS_URL or CANVAS_ACCESS_TOKEN ends at
\* once: it leaves the mirror, the mapping, the record of inaccessible
\* files and the report as they were, and it sends no request, uploads
\* nothing and creates no store.
C17_ConfigError ==
    /\ []((run > 0 /\ ~m_cfg.canvas) => (m_pc = "done" /\ NothingDone))
    /\ [][ConfigErrorStep =>
              /\ m_pc' = "done"
              /\ local' = local
              /\ mapping_file' = mapping_file
              /\ inaccessible_file' = inaccessible_file
              /\ report_file' = report_file]_vars

\* A call of main without the Canvas configuration, made when an earlier
\* run has left a mirror behind.
C17_Witness ==
    /\ run > 1
    /\ ~m_cfg.canvas
    /\ m_pc = "done"
    /\ DOMAIN local # {}

\* The records that the run has added to the entries of vector_stores_info.
AddedRecords ==
    UNION {{rec \in Range(vector_stores_info[folder].files) : rec.file_id.uploaded_in = run}
           : folder \in DOMAIN vector_stores_info}

\* The files of the run for which upload_to_vector_store has been called and
\* one of its two requests has failed.
UploadFailures ==
    {e \in Range(stats.errors) : e.error = "upload failed"}

\* C18: every record that the run has added to an entry of the mapping is
\* the record of a file whose document was created and attached to the
\* store, with the path of that file below DOWNLOAD_ROOT; a file whose
\* document was created and could not be attached has no record.
C18_RecordOnSuccess ==
    /\ \A rec \in AddedRecords :
          /\ rec.file_id.doc \in m_log.documents \cap m_log.attached
          /\ rec.path = RelativePath(rec.file_id.doc, m_cfg.sep)
    /\ \A file_path \in m_log.documents \ m_log.attached :
          \A rec \in AddedRecords : rec.file_id.doc # file_path

\* A run that has a record for one file and none for another file, whose
\* document was created and could not be attached to the store.
C18_Witness ==
    /\ AddedRecords # {}
    /\ m_log.documents \ m_log.attached # {}
    /\ UploadFailures # {}

Tried == {m_log.tried[i] : i \in 1..Len(m_log.tried)}

\* A step in which upload_to_vector_store is called and returns False.
UploadFailedStep ==
    /\ m_pc = "files"
    /\ Len(m_log'.tried) = Len(m_log.tried) + 1
    /\ ~m_log'.tried[Len(m_log'.tried)].success

\* A step in which create_vector_store_for_course returns None.
CreateFailedStep ==
    /\ m_pc = "upload"
    /\ m_log'.refused # m_log.refused

HasRecordedStore(folder) ==
    /\ mapping_file.exists
    /\ mapping_file.complete
    /\ folder \in DOMAIN mapping_file.data
    /\ "vector_store_id" \in DOMAIN mapping_file.data[folder]

RecordedStore(folder) == mapping_file.data[folder].vector_store_id

\* The step of the upload loop that takes the next course of course_files.
CourseStoreStep(folder) ==
    /\ m_pc = "upload"
    /\ m_pc' # "killed"
    /\ folder \in DOMAIN m_course_files
    /\ m_course_files' = Without(m_course_files, folder)

\* C20: for a course with files to upload whose store id is recorded in
\* vector_stores_mapping.json, the uploads go to that store, the entry of
\* the course keeps that id and no store is created; a store is created
\* only for a course without a recorded id, and its id is then the id of
\* the entry of the course, in memory and, once the mapping is saved, in
\* vector_stores_mapping.json.
C20_StoreReuse ==
    /\ [][\A folder \in DOMAIN m_course_files :
              CourseStoreStep(folder) =>
                 /\ HasRecordedStore(folder) =>
                       /\ m_log'.created = m_log.created
                       /\ up_store' = RecordedStore(folder)
                       /\ vector_stores_info'[folder].vector_store_id = RecordedStore(folder)
                 /\ m_log'.created # m_log.created =>
                       /\ ~HasRecordedStore(folder)
                       /\ m_log'.created = m_log.created \cup {folder}
                       /\ up_store' = NewStoreId(folder)
                       /\ vector_stores_info'[folder].vector_store_id = NewStoreId(folder)]_vars
    /\ [](m_pc = "report" =>
              \A folder \in m_log.created :
                 HasRecordedStore(folder) /\ RecordedStore(folder) = NewStoreId(folder))

\* A run has uploaded a file to a store that an earlier run had created and
\* recorded, and has created a store for another course.
C20_Witness ==
    /\ m_pc = "report"
    /\ m_log.created # {}
    /\ \E folder \in DOMAIN mapping_file.data :
          /\ folder \notin m_log.created
          /\ mapping_file.data[folder].vector_store_id.created_in < run
          /\ \E rec \in Range(mapping_file.data[folder].files) :
                rec.file_id.uploaded_in = run

\* ------------------------------------------------------------------------
\* Claims about the save of the mapping and the files that are uploaded
\* ------------------------------------------------------------------------

\* The run has read the mapping and scanned the mirror, and has ended with
\* its report.
UploadRunEnded == m_pc = "done" /\ m_log.scanned /\ m_log.reported

\* C21 as stated: every run that reaches the upload part and ends has
\* written vector_stores_mapping.json exactly once.
C21_SavedOnceAsStated == UploadRunEnded => m_log.saves = 1

\* C21: a run writes vector_stores_mapping.json at most once; a run that
\* reaches the upload part and ends has written it exactly when the scan
\* had found files to upload; and the file changes only when no course and
\* no file is left to upload.
C21_SavedOnce ==
    /\ [](m_log.saves <= 1)
    /\ [](UploadRunEnded => (m_log.saves = 1 <=> DOMAIN m_log.to_upload # {}))
    /\ [][mapping_file' # mapping_file =>
              /\ m_pc \in {"save", "write"}
              /\ DOMAIN m_course_files = {}
              /\ up_files = {}
              /\ todo_courses = <<>>
              /\ \A folder \in DOMAIN m_log.to_upload :
                    folder \in DOMAIN vector_stores_info \cup m_log.refused]_vars

\* A run that has uploaded files of two courses and has then written the
\* mapping.
C21_Witness ==
    /\ UploadRunEnded
    /\ m_log.saves = 1
    /\ \E i, j \in 1..Len(m_log.tried) : m_log.tried[i].course # m_log.tried[j].course

\* The files of the mirror, directories apart.
LocalFiles == {q \in DOMAIN local : local[q] # DirMark}

\* A file of the mirror with a name whose extension is not supported or with
\* more than 512 MiB.
Ineligible(q) ==
    \/ Suffix(q[Len(q)]) = <<>>
    \/ Suffix(q[Len(q)])[1] \notin SUPPORTED_EXTENSIONS
    \/ local[q] > 512 * 1024 * 1024

\* The paths that the entries of a mapping record.
RecordedPaths(mapping) ==
    UNION {{mapping[folder].files[i].path : i \in 1..Len(mapping[folder].files)}
           : folder \in DOMAIN mapping}

\* C22: every file given to upload_to_vector_store has a supported extension
\* and at most 512 MiB; a file of the mirror that has not is never uploaded
\* and never recorded, neither in memory nor in vector_stores_mapping.json;
\* and when nothing is recorded yet, every other file of the mirror, a file
\* of exactly 512 MiB included, is among the files to upload.
C22_OnlyEligible ==
    /\ \A t \in Tried : ~Ineligible(t.file)
    /\ \A q \in LocalFiles :
          Ineligible(q) =>
             /\ q \notin m_log.documents \cup m_log.uploaded
             /\ RelativePath(q, m_cfg.sep) \notin RecordedPaths(vector_stores_info)
             /\ mapping_file.exists =>
                   RelativePath(q, m_cfg.sep) \notin RecordedPaths(mapping_file.data)
    /\ (m_pc = "upload" /\ ~mapping_file.exists) =>
          \A q \in LocalFiles :
             ~Ineligible(q) => q[1] \in DOMAIN m_log.to_upload /\ q \in m_log.to_upload[q[1]]

\* The mirror holds a file of one byte more than 512 MiB and a page, and the
\* run has uploaded a file of exactly 512 MiB and saved the mapping.
C22_Witness ==
    /\ \E q \in LocalFiles : local[q] = MAX_FILE_SIZE + 1
    /\ \E q \in LocalFiles : Suffix(q[Len(q)]) = <<"html">>
    /\ \E q \in m_log.attached : local[q] = MAX_FILE_SIZE
    /\ m_log.saves = 1

\* A name that can_upload_to_vector_store rejects whatever the size.
UnsupportedName(name) ==
    Suffix(name) = <<>> \/ Suffix(name)[1] \notin SUPPORTED_EXTENSIONS

\* C23: whenever the reconciliation has produced a report, no file of the
\* remote listing whose name has no supported extension is among the missing
\* keys.
C23_IneligibleNotMissing ==
    Reconciled =>
        \A c \in CourseObjects, f \in FileObjects :
           (StatusFileName(f) # <<>> /\ UnsupportedName(StatusFileName(f))) =>
              CompositeKey(StatusCourseName(c), StatusFileName(f))
                 \notin s_result.missing_files

\* ------------------------------------------------------------------------
\* Claims about the API server's background sync
\* ------------------------------------------------------------------------
SyncsInProgress == sync_scheduled + sync_running

SyncRequestStep == Len(sync_replies') = Len(sync_replies) + 1

\* C24: at most one background sync is scheduled or running at any time,
\* the flag is set exactly while there is one, and a request that arrives
\* while a sync has been started and has not finished is answered
\* already_running and schedules no further run_file_sync.
C24_OneSync ==
    /\ [](SyncsInProgress <= 1 /\ (is_running <=> SyncsInProgress = 1))
    /\ [][(SyncRequestStep /\ SyncsInProgress > 0)
            => /\ sync_replies'[Len(sync_replies')] = "already_running"
               /\ sync_scheduled' = sync_scheduled
               /\ sync_running' = sync_running]_vars

\* A request was refused while main was downloading, and after that sync
\* ended a later request started a second one.
C24_Witness ==
    /\ sync_replies = <<"started", "already_running", "started">>
    /\ sync_running = 1
    /\ m_pc = "items"
    /\ run = 2

\* ------------------------------------------------------------------------
\* Claims about the order of the work within a run
\* ------------------------------------------------------------------------
\* process_course is entered for a course.
CourseStartStep == cur_course' # NoCourse /\ cur_course' # cur_course

\* process_course returns to the loop of main.
CourseReturnStep == cur_course # NoCourse /\ cur_course' = NoCourse /\ m_pc' # "killed"

\* Nothing of the course is waiting, or process_course stands at the probe
\* of the Files area, where a 403 makes it return.
NothingPending(rest) == rest = <<>> \/ (Len(rest) = 1 /\ rest[1].kind = "area")

\* The calls of download_file of one course are next to each other.
CallsInCourseBlocks(calls) ==
    \A i, j, k \in 1..Len(calls) :
        (i < j /\ j < k /\ calls[i].course = calls[k].course)
            => calls[j].course = calls[i].course

\* C25: within one run process_course is entered for the next course of the
\* listing only when no process_course is active and nothing of an earlier
\* course is waiting, it returns only with nothing of its course waiting, a
\* step makes at most one call of download_file, which has ended when the
\* step ends, and the calls of one course are never mixed with those of
\* another.
C25_OneAfterAnother ==
    /\ [][/\ (CourseStartStep => /\ cur_course = NoCourse
                                  /\ todo = <<>>
                                  /\ cur_course' = Head(todo_courses))
           /\ (CourseReturnStep => /\ NothingPending(todo)
                                   /\ todo_courses' = Tail(todo_courses))
           /\ Len(m_log'.calls) <= Len(m_log.calls) + 1]_vars
    /\ [](CallsInCourseBlocks(m_log.calls))
    /\ [](cur_course = NoCourse => todo = <<>>)

\* The second course is being processed after downloads of the first, and
\* one of its files has been downloaded.
C25_Witness ==
    /\ cur_course # NoCourse
    /\ cur_course.id = "2"
    /\ \E i, j \in 1..Len(m_log.calls) :
          /\ m_log.calls[i].course = "1" /\ m_log.calls[i].requested
          /\ m_log.calls[j].course = "2" /\ m_log.calls[j].requested

\* ------------------------------------------------------------------------
\* Claims about what the status check touches
\* ------------------------------------------------------------------------
\* C26: no step of check_index_status changes vector_stores_mapping.json,
\* inaccessible_files.json or a file or folder of the mirror, calls
\* download_file or uploads to a vector store: the only requests it issues
\* are those of the listings.
C26_ReadOnly ==
    [][/\ mapping_file' = mapping_file
       /\ inaccessible_file' = inaccessible_file
       /\ local' = local
       /\ report_file' = report_file
       /\ m_log' = m_log
       /\ vector_stores_info' = vector_stores_info]_vars

\* A status check has answered beside a mirror with files in it, a mapping
\* file and a list of inaccessible files.
C26_Witness ==
    /\ s_pc = "done"
    /\ s_result.status \notin {"none", "error"}
    /\ DOMAIN local # {}
    /\ local = MirrorRunLocal
    /\ mapping_file.exists
    /\ inaccessible_file.exists

\* ------------------------------------------------------------------------
\* Claims about the key sets of the status check and the walk of a run
\* ------------------------------------------------------------------------
\* The content locations the walk of process_course has found in this run:
\* the paths given to download_file and the documents written for pages.
WalkedPaths == m_log.written \cup {m_log.calls[i].path : i \in 1..Len(m_log.calls)}

CourseOfFolder(folder) == CHOOSE c \in Range(RemoteCourses) : CourseFolder(c) = folder

\* The key a status check would need for a location: the display name of
\* the course and the file name.
WalkedKey(path) == CompositeKey(StatusCourseName(CourseOfFolder(path[1])), path[Len(path)])

\* C27 (as stated): the set canvas_file_names of a status check whose
\* requests all succeed holds the key of every content location the walk of
\* the downloader finds: files of module items, documents of pages, files
\* embedded in them and files of the Files area.
C27_RemoteKeysCoverWalk == \A path \in WalkedPaths : WalkedKey(path) \in RemoteKeys

\* The upload driver has recorded the file f of the Files area of course c:
\* the entry of the folder of c holds a record whose path ends in the name.
RecordedFor(c, f) ==
    /\ mapping_file.exists
    /\ mapping_file.complete
    /\ CourseFolder(c) \in DOMAIN mapping_file.data
    /\ \E i \in 1..Len(mapping_file.data[CourseFolder(c)].files) :
          AfterLast(Replace(mapping_file.data[CourseFolder(c)].files[i].path, "\\", "/"), "/")
              = sanitize_filename(f.display_name)

\* C28 (as stated): for every course and every file of it that the upload
\* driver has recorded, the key the status check derives from the mapping
\* entry of the course is the remote key made of the display name of the
\* course and the file name, so the file is not reported missing.
C28_RecordedKeyIsRemoteKey ==
    \A c \in Range(RemoteCourses) : \A i \in 1..Len(c.files) :
        RecordedFor(c, RemoteFiles[c.files[i]])
            => /\ StatusKey(c, RemoteFiles[c.files[i]])
                    \in EntryKeys(CourseFolder(c), mapping_file.data[CourseFolder(c)])
               /\ StatusKey(c, RemoteFiles[c.files[i]]) \notin MissingNow

\* The file names a listing of the status check can carry.
StatusNames == {StatusFileName(fo) : fo \in FileObjects} \ {<<>>}

\* The keys the crawl holds for a course name.
KeysOfCourse(course_name) ==
    canvas_file_names \cap {CompositeKey(course_name, n) : n \in StatusNames}

\* The crawl is inside the listing of a course called course_name and has
\* kept two or more file objects of it that are all called file_name: two
\* remote files of the course share the name.
NamesCollide(course_name, file_name) ==
    /\ s_pc = "crawl"
    /\ s_todo # <<>>
    /\ StatusCourseName(Head(s_todo)) = course_name
    /\ course_files >= 2
    /\ KeysOfCourse(course_name) = {CompositeKey(course_name, file_name)}

\* A key of the mapping that the downloader gives to a course of that name:
\* the sanitized name, after the course code and "_" when there is a code.
FolderOfCourse(key, course_name) ==
    \/ key = sanitize_filename(course_name)
    \/ IsSuffix(<<"_">> \o sanitize_filename(course_name), key)

\* The mapping entry of the course holds a record whose path ends in the name.
CourseEntryRecords(course_name, file_name) ==
    /\ mapping_file.exists
    /\ mapping_file.complete
    /\ \E key \in DOMAIN mapping_file.data :
          /\ FolderOfCourse(key, course_name)
          /\ \E i \in 1..Len(mapping_file.data[key].files) :
                AfterLast(Replace(mapping_file.data[key].files[i].path, "\\", "/"), "/")
                    = file_name

\* C29 (as stated): when two remote files of a course share a display name
\* and the mapping entry of the course holds a record whose path ends in
\* that name, the status check does not list the key of the two files as
\* missing. The keys of a crawl only grow and the check changes neither
\* file, so the key is in missing_files of the report exactly when lines
\* 757-761 put it there for the keys collected so far.
C29_CollisionNotMissing ==
    \A course_name \in {StatusCourseName(c) : c \in CourseObjects} :
        \A file_name \in StatusNames :
            (NamesCollide(course_name, file_name)
                    /\ CourseEntryRecords(course_name, file_name))
                => CompositeKey(course_name, file_name)
                      \notin MissingFiles(canvas_file_names, SetI, SetInaccessible)

\* ------------------------------------------------------------------------
\* Claims about files that answer 403
\* ------------------------------------------------------------------------
\* C30 (as stated): within one run, once a download of a remote file has
\* answered 403 no further download request is issued for that file id, and
\* the list of inaccessible files of the run holds at most one record of a
\* file id.
C30_DeniedNotRequestedAgain ==
    /\ \A i, j \in 1..Len(m_log.calls) :
          (i < j /\ m_log.calls[i].msg = "403 Forbidden"
                 /\ m_log.calls[j].file = m_log.calls[i].file)
              => ~m_log.calls[j].requested
    /\ \A i, j \in 1..Len(stats.inaccessible_files) :
          stats.inaccessible_files[i].file_id = stats.inaccessible_files[j].file_id => i = j

\* ------------------------------------------------------------------------
\* Claims about the records of failures and about interrupted runs
\* ------------------------------------------------------------------------
\* The number of entries of the error list and of the inaccessible list.
RecordCount(st) == Len(st.errors) + Len(st.inaccessible_files)

\* A run that passed the configuration check has returned.
CheckedRunEnded == m_pc = "done" /\ run > 0 /\ m_cfg.canvas

\* C31 (as stated): every step in which the metadata, the page or the
\* download of a content item fails and nothing is written for it adds an
\* entry to the error list or to the inaccessible list of the run, and every
\* run that passed the configuration check has written the report when it
\* ends.
C31_NothingDropped ==
    /\ [][(ItemFailedStep /\ local' = local) => RecordCount(stats') > RecordCount(stats)]_vars
    /\ [](CheckedRunEnded => m_log.reported)

\* The file the interrupted process left is still not the file of the remote.
StillPartial ==
    FileExists(local, InterruptedPath) /\ local[InterruptedPath] # RemoteFiles.f1.size

\* C32 (as stated): as long as the file that the interrupted download left
\* is partial, no later run classifies it as already present and no later
\* run, full or upload-only, submits it to a vector store.
C32_PartialNeverValid ==
    StillPartial =>
        /\ InterruptedPath \notin m_log.uploaded
        /\ \A i \in 1..Len(m_log.calls) :
              m_log.calls[i].path = InterruptedPath => m_log.calls[i].msg # "exists"

\* C33: no step removes a file or a folder of the mirror, and the content of
\* a file changes only in a step that writes that path (a download to it or
\* the document of a page).
C33_NeverDeleted ==
    [][/\ DOMAIN local \subseteq DOMAIN local'
       /\ \A q \in DOMAIN local :
             local'[q] # local[q] => (local[q] # DirMark /\ q \in m_log'.written)]_vars

\* The file an interrupted process left has been overwritten by the download
\* of a later run, and everything else of the mirror is still there.
C33_Witness ==
    /\ InterruptedPath \in m_log.written
    /\ local[InterruptedPath] = RemoteFiles.f1.size
    /\ DOMAIN InterruptedLocal \subseteq DOMAIN local
    /\ DOMAIN local # DOMAIN InterruptedLocal

\* ------------------------------------------------------------------------
\* Claims about the release of the running flag
\* ------------------------------------------------------------------------
\* C34: the flag is set from the answer "started" for as long as the sync
\* is scheduled or running, and whenever it is set it becomes FALSE again:
\* main returns or raises and run_file_sync resets it.
C34_FlagReleased ==
    /\ [](SyncsInProgress = 1 => is_running)
    /\ (is_running ~> ~is_running)

\* A sync that was started, and during which a second trigger was refused,
\* has uploaded files and ended, and the flag is released.
C34_Witness ==
    /\ sync_replies = <<"started", "already_running">>
    /\ ~is_running
    /\ SyncsInProgress = 0
    /\ m_pc = "done"
    /\ m_log.reported
    /\ m_log.uploaded # {}

\* ------------------------------------------------------------------------
\* The mapping across runs
\* ------------------------------------------------------------------------
\* The runs of the downloader beside the mirror above when
\* vector_stores_mapping.json holds an entry for the folder of course 1 that
\* has no "vector_store_id" key (the case line 800 tests for) and records
\* Modules/m/f.pdf as uploaded.
NoStoreIdFolder == CourseFolder(RemoteCourses[1])

NoStoreIdRecord ==
    [path |-> RelativePath(ModulePath(RemoteCourses[1], <<"m">>, RemoteFiles.f1.display_name),
                           "/"),
     file_id |-> [doc |-> ModulePath(RemoteCourses[1], <<"m">>, RemoteFiles.f1.display_name),
                  uploaded_in |-> 0]]

NoStoreIdMapping == [folder \in {NoStoreIdFolder} |-> [files |-> <<NoStoreIdRecord>>]]

InitNoStoreId ==
    /\ InitMirrorMain
    /\ run = 0
    /\ mapping_file = MappingJson(NoStoreIdMapping)
    /\ inaccessible_file = Absent
    /\ InitFetchIdle
    /\ InitStatusIdle
    /\ InitSyncIdle

SpecNoStoreId == InitNoStoreId /\ [][Next]_vars

\* The mapping the run has found in vector_stores_mapping.json before its save.
MappingBeforeRun ==
    IF m_log.before_save.exists /\ m_log.before_save.complete
    THEN m_log.before_save.data ELSE <<>>

RunSaved == m_log.saves > 0 /\ mapping_file.exists /\ mapping_file.complete

RecordsOf(entry) ==
    IF "files" \in DOMAIN entry THEN {entry.files[i] : i \in 1..Len(entry.files)} ELSE {}

StoreIdKept(old, new) ==
    "vector_store_id" \in DOMAIN old =>
        /\ "vector_store_id" \in DOMAIN new
        /\ new.vector_store_id = old.vector_store_id

RecordedStores ==
    {s \in m_log.stores : s.created_in < run /\ s.created_in \notin m_log.interrupted}

\* C36: of two stores created for one folder, the earlier was created by a
\* run that was interrupted; and a run that handles a folder for which an
\* earlier run that ran to its end has created a store uses that store and
\* has not called vector_stores.create for the folder.
C36_OneStorePerFolder ==
    /\ \A s1, s2 \in m_log.stores :
          (s1.store = s2.store /\ s1.created_in < s2.created_in)
              => s1.created_in \in m_log.interrupted
    /\ \A s \in RecordedStores :
          /\ (m_pc = "files" /\ up_course = s.store) => up_store = s
          /\ s.store \notin m_log.created
          /\ s.store \notin m_log.refused

\* The second of two runs that ran to their end uploads a file to the store
\* that the first has created for the folder.
C36_Witness ==
    /\ run = 2
    /\ m_log.interrupted = {}
    /\ m_pc = "done"
    /\ m_log.reported
    /\ \E s \in RecordedStores :
          /\ s.created_in = 1
          /\ \E i \in 1..Len(m_log.tried) :
                m_log.tried[i].course = s.store /\ m_log.tried[i].success
          /\ mapping_file.data[s.store].vector_store_id = s

\* The mapping as the scan of the run has loaded it.
MappingLoaded ==
    IF m_pc = "write" \/ m_log.saves > 0 THEN MappingBeforeRun
    ELSE IF mapping_file.exists /\ mapping_file.complete THEN mapping_file.data
    ELSE <<>>

\* The paths recorded for a folder, as written in the file.
PathsWritten(mapping, folder) ==
    {mapping[folder].files[i].path : i \in 1..Len(mapping[folder].files)}

\* C37: no file given to upload_to_vector_store in a run has its relative
\* path among the records that the mapping held for its folder when the run
\* loaded it, whatever the size of the file is now; and so the mapping file
\* never holds two records of one path.
C37_RecordedNotUploadedAgain ==
    /\ \A i \in 1..Len(m_log.tried) :
          NormalizedRelativePath(m_log.tried[i].file, m_cfg.sep)
              \notin UploadedFiles(MappingLoaded, m_log.tried[i].course)
    /\ (mapping_file.exists /\ mapping_file.complete) =>
          \A folder \in DOMAIN mapping_file.data :
              Cardinality(PathsWritten(mapping_file.data, folder))
                  = Len(mapping_file.data[folder].files)

\* f.pdf was uploaded and recorded by a run while the mirror held it with
\* another size than the remote declares; the next run has fetched it again,
\* has uploaded another file of the course and has not given f.pdf to
\* upload_to_vector_store.
C37_Witness ==
    /\ run = 2
    /\ m_pc = "done"
    /\ m_log.saves = 1
    /\ InterruptedPath \in m_log.written
    /\ local[InterruptedPath] = RemoteFiles.f1.size
    /\ NormalizedRelativePath(InterruptedPath, m_cfg.sep)
           \in UploadedFiles(MappingBeforeRun, CourseFolder(RemoteCourses[1]))
    /\ \E i \in 1..Len(m_log.tried) :
          m_log.tried[i].course = CourseFolder(RemoteCourses[1]) /\ m_log.tried[i].success
    /\ \A i \in 1..Len(m_log.tried) : m_log.tried[i].file # InterruptedPath

\* ------------------------------------------------------------------------
\* Termination of the paginated fetch
\* ------------------------------------------------------------------------
\* fetch_all_pages when every request comes to an end: the session of line
\* 668 has the default timeout of aiohttp, so that a request which gets no
\* answer raises, and the iteration that issued it ends with its break.
SpecFetchFair == InitFetch /\ [][NextFetch]_vars /\ WF_FetchVars(FetchIteration)

\* The URL that the loop has taken from answer i: the URL of the request
\* after it, or current_url when answer i is the last and the loop goes on.
Followed(i) == IF i < Len(f_served) THEN f_served[i + 1].url ELSE current_url

\* A next link that the loop has taken led back to a URL that had been
\* requested already.
LedBack ==
    \E i \in 1..Len(f_served) :
        /\ i < Len(f_served) \/ f_pc = "loop"
        /\ \E j \in 1..i : f_served[j].url = Followed(i)

\* One request per page reached: the requests are the pages of the chain in
\* their order, each requested once.
OneRequestPerPage ==
    /\ \A i \in 1..(Len(f_served) - 1) :
          /\ f_served[i].kind = "ok"
          /\ f_served[i + 1].url \in f_served[i].nexts
    /\ ~LedBack =>
          \A i, j \in 1..Len(f_served) : f_served[i].url = f_served[j].url => i = j
    /\ f_pc = "loop" =>
          (f_served = <<>> \/ current_url \in f_served[Len(f_served)].nexts)

\* An answer that is an error or an exception, or has no next link, is the
\* last one: fetch_all_pages has returned.
LastAnswerEnds ==
    \A i \in 1..Len(f_served) :
        (f_served[i].kind # "ok" \/ f_served[i].nexts = {})
            => (i = Len(f_served) /\ Returned)

\* C38: fetch_all_pages returns unless a next link leads back to a URL
\* already requested; it requests each page of the chain once, in the order
\* of the chain; and an answer that is an error, an exception or has no next
\* link ends the loop.
C38_Terminates ==
    /\ [](OneRequestPerPage /\ LastAnswerEnds)
    /\ <>(Returned \/ LedBack)

\* fetch_all_pages has returned after a chain of two pages: the first answer
\* named the second URL as next, the second had no next link.
C38_Witness ==
    /\ Returned
    /\ Len(f_served) = 2
    /\ f_served[1].url # f_served[2].url
    /\ f_served[1].nexts = {f_served[2].url}
    /\ f_served[2].kind = "ok"
    /\ f_served[2].nexts = {}
    /\ all_data = f_served[1].items \o f_served[2].items

\* ------------------------------------------------------------------------
\* The API server: the legacy agent, /api/tools and /ws/chat
\* ------------------------------------------------------------------------
\* Largest number of answers of /api/tools and of frames received on
\* /ws/chat in one behaviour.
MaxApiRequests == 4

StartupInitializesAgent(flag) == TRUE

\* Lines 286-314: startup_event does not assign agent_initialized; the only
\* assignment is in initialize_agent (278), which no code calls.
StartupAgentFlag(flag) == flag

\* Lines 286-314 and 53-90: startup_event awaits session_manager.initialize,
\* which succeeds or not with the environment.
Startup ==
    /\ ~started
    /\ started' = TRUE
    /\ \E success \in BOOLEAN : manager_initialized' = success
    /\ agent_initialized' = StartupAgentFlag(agent_initialized)
    /\ UNCHANGED <<ws_open, api_replies>>
    /\ UNCHANGED <<FetchVars, DiskVars, StatusVars, MainVars, SyncVars>>

\* Lines 537-544: GET /api/tools.
GetTools ==
    /\ started
    /\ Len(api_replies) < MaxApiRequests
    /\ api_replies' =
          Append(api_replies,
                 IF ~agent_initialized
                 THEN [endpoint |-> "tools", status |-> 503,
                       sent |-> <<"Agent not initialized">>]
                 ELSE [endpoint |-> "tools", status |-> 200, sent |-> <<"tools">>])
    /\ UNCHANGED <<agent_initialized, manager_initialized, started, ws_open>>
    /\ UNCHANGED <<FetchVars, DiskVars, StatusVars, MainVars, SyncVars>>

\* Lines 475-486: a client connects to /ws/chat and gets the welcome frame.
WsConnect ==
    /\ started
    /\ ~ws_open
    /\ Len(api_replies) < MaxApiRequests
    /\ ws_open' = TRUE
    /\ api_replies' = Append(api_replies,
                             [endpoint |-> "ws", frame |-> "connect", sent |-> <<"system">>])
    /\ UNCHANGED <<agent_initialized, manager_initialized, started>>
    /\ UNCHANGED <<FetchVars, DiskVars, StatusVars, MainVars, SyncVars>>

\* What a client can send: an object with a text in "message", an object
\* whose "message" is empty or missing, or a frame that is not a JSON object.
WsFrames == {"text", "empty", "malformed"}

\* What agent.run gives the handler: an answer, or an exception.
AgentOutcomes == {"response", "raise"}

\* Lines 488-530: one iteration of the receive loop. A frame without text is
\* skipped without an answer; a frame that is not a JSON object makes
\* receive_json or data.get raise, which ends the handler; a frame with text
\* gets the status frame and then the answer of the agent or an error frame.
WsMessage ==
    /\ ws_open
    /\ Len(api_replies) < MaxApiRequests
    /\ \E frame \in WsFrames, outcome \in AgentOutcomes :
        /\ ~agent_initialized => outcome = "response"
        /\ api_replies' =
              Append(api_replies,
                     [endpoint |-> "ws", frame |-> frame,
                      sent |-> IF frame # "text" THEN <<>>
                               ELSE IF ~agent_initialized
                               THEN <<"status", "Agent not initialized">>
                               ELSE IF outcome = "response"
                               THEN <<"status", "response">>
                               ELSE <<"status", "Error">>])
        /\ ws_open' = (frame # "malformed")
    /\ UNCHANGED <<agent_initialized, manager_initialized, started>>
    /\ UNCHANGED <<FetchVars, DiskVars, StatusVars, MainVars, SyncVars>>

\* Lines 532-534: the client goes away; receive_json raises
\* WebSocketDisconnect and the handler ends.
WsDisconnect ==
    /\ ws_open
    /\ ws_open' = FALSE
    /\ UNCHANGED <<agent_initialized, manager_initialized, started, api_replies>>
    /\ UNCHANGED <<FetchVars, DiskVars, StatusVars, MainVars, SyncVars>>

InitAgent ==
    /\ InitFetchIdle
    /\ InitStatusIdle
    /\ InitMainOff
    /\ InitSyncIdle
    /\ mapping_file = Absent
    /\ inaccessible_file = Absent

NextAgent == Startup \/ GetTools \/ WsConnect \/ WsMessage \/ WsDisconnect

SpecAgent == InitAgent /\ [][NextAgent]_vars

\* C39: agent_initialized is False in every state; every answer of
\* /api/tools is 503 "Agent not initialized", and every chat message (a frame
\* with a text) on /ws/chat is answered, after the status frame, with the
\* error frame "Agent not initialized".
C39_AgentNeverInitialized ==
    /\ agent_initialized = FALSE
    /\ \A i \in 1..Len(api_replies) :
          /\ api_replies[i].endpoint = "tools" =>
                /\ api_replies[i].status = 503
                /\ api_replies[i].sent = <<"Agent not initialized">>
          /\ (api_replies[i].endpoint = "ws" /\ api_replies[i].frame = "text") =>
                api_replies[i].sent = <<"status", "Agent not initialized">>

\* The session manager is ready, /api/tools has answered 503 and a chat
\* message has got the error frame.
C39_Witness ==
    /\ started
    /\ manager_initialized
    /\ \E i, j \in 1..Len(api_replies) :
          /\ api_replies[i].endpoint = "tools"
          /\ api_replies[i].status = 503
          /\ api_replies[j].endpoint = "ws"
          /\ api_replies[j].frame = "text"
          /\ api_replies[j].sent = <<"status", "Agent not initialized">>

============================================================================
